---- MODULE Spec2Model ----
(***************************************************************************)
(* A model of the log-inspection backend of app/views.py: the filename     *)
(* sanitizer, the pod lister (get_pods), the log resolver (get_pod_logs)   *)
(* with its cache / filesystem / live-fetch / synthesis / persistence      *)
(* chain, the download tracker and the RCA mailer.                         *)
(*                                                                         *)
(* Strings are sequences of one-character strings, so that sanitising,     *)
(* stripping, joining and replacing are computed character by character.   *)
(* Log text is a sequence of chunks (a banner, a line, a run of            *)
(* whitespace); the empty text is the empty sequence.                      *)
(***************************************************************************)
EXTENDS Integers, Sequences, FiniteSets, TLC

VARIABLES cache, files, podsConfig, appConfig, now, req, resp, effects, hist, calls, pin, pout

vars == <<cache, files, podsConfig, appConfig, now, req, resp, effects, hist, calls, pin, pout>>

sysvars == <<cache, files, podsConfig, appConfig, now, req, resp, effects, hist, calls>>

(***************************************************************************)
(* Bounds of the model.                                                    *)
(***************************************************************************)
MaxLen == 3

MaxTime == 45

TickStep == 15

MaxManual == 1

MaxDownloads == 1

MaxIdLen == 1

TextMargin == 1

MaxTracked == 11

MaxOther == 1

MaxPauses == 3

MaxWorkers == 2

MaxCalls == 3
\* how many half lifetimes of a pod list the clock runs through
MaxWaits == 3
\* how often the clock moves while concurrent requests are served
MaxRaceTicks == 1

(***************************************************************************)
(* Characters and strings.                                                 *)
(***************************************************************************)
Letters == {"a", "b", "c", "d", "e", "f", "g", "h", "i", "j", "k", "l", "m",
            "n", "o", "p", "q", "r", "s", "t", "u", "v", "w", "x", "y", "z",
            "A", "B", "C", "D", "E", "F", "G", "H", "I", "J", "K", "L", "M",
            "N", "O", "P", "Q", "R", "S", "T", "U", "V", "W", "X", "Y", "Z"}

Digits == {"0", "1", "2", "3", "4", "5", "6", "7", "8", "9"}

\* the characters the pattern [a-zA-Z0-9_\-] of sanitize_filename accepts
SafeChars == Letters \cup Digits \cup {"_", "-"}

\* what str.strip() removes: the space, the tab and the line break
Whitespace == {" ", "\t", "\n"}

\* Python's None
None == <<"<None>">>

RECURSIVE MapChars(_, _)
MapChars(s, i) ==
    IF i > Len(s) THEN <<>>
    ELSE <<(IF s[i] \in SafeChars THEN s[i] ELSE "_")>> \o MapChars(s, i + 1)

\* re.sub(r'[^a-zA-Z0-9_\-]', '_', str(value)): every character outside the
\* class becomes one underscore.
ReSubUnsafe(s) == MapChars(s, 1)

\* a slip that would map an all-invalid value to the fallback token
sanitize_filename_allbad(value) ==
    IF value = None \/ value = <<>> \/ (\A i \in 1..Len(value) : value[i] \notin SafeChars)
    THEN <<"u", "n", "k", "n", "o", "w", "n">>
    ELSE ReSubUnsafe(value)

\* a slip that would drop the invalid characters instead of replacing them
sanitize_filename_drop(value) ==
    IF value = None \/ value = <<>>
    THEN <<"u", "n", "k", "n", "o", "w", "n">>
    ELSE SelectSeq(value, LAMBDA ch : ch \in SafeChars)

\* a slip that would let the raw value through
sanitize_filename_raw(value) ==
    IF value = None \/ value = <<>>
    THEN <<"u", "n", "k", "n", "o", "w", "n">>
    ELSE value

sanitize_filename(value) ==
    IF value = None \/ value = <<>>
    THEN <<"u", "n", "k", "n", "o", "w", "n">>
    ELSE ReSubUnsafe(value)

(***************************************************************************)
(* String helpers, computed character by character.                        *)
(***************************************************************************)
RECURSIVE LStrip(_)
LStrip(s) == IF s # <<>> /\ Head(s) \in Whitespace THEN LStrip(Tail(s)) ELSE s

RECURSIVE RStrip(_)
RStrip(s) ==
    IF s # <<>> /\ s[Len(s)] \in Whitespace THEN RStrip(SubSeq(s, 1, Len(s) - 1)) ELSE s

\* str.strip()
Strip(s) == RStrip(LStrip(s))

\* s[i:i+len(sub)] == sub
MatchAt(s, i, sub) ==
    /\ i + Len(sub) - 1 <= Len(s)
    /\ \A j \in 1..Len(sub) : s[i + j - 1] = sub[j]

\* sub in s
Contains(s, sub) == \E i \in 1..(Len(s) + 1) : MatchAt(s, i, sub)

RECURSIVE ReplaceFrom(_, _, _, _)
ReplaceFrom(s, i, old, new) ==
    IF i > Len(s) THEN <<>>
    ELSE IF MatchAt(s, i, old) THEN new \o ReplaceFrom(s, i + Len(old), old, new)
    ELSE <<s[i]>> \o ReplaceFrom(s, i + 1, old, new)

\* s.replace(old, new) for a non-empty old: left to right, non-overlapping
Replace(s, old, new) == ReplaceFrom(s, 1, old, new)

\* s.startswith(pre)
StartsWith(s, pre) == MatchAt(s, 1, pre)

\* os.path.join(a, b): an absolute b discards a
PathJoin(a, b) ==
    IF b # <<>> /\ Head(b) = "/" THEN b
    ELSE IF a = <<>> \/ a[Len(a)] = "/" THEN a \o b
    ELSE a \o <<"/">> \o b

Min(a, b) == IF a < b THEN a ELSE b

\* all([...]) over strings: every one is non-empty
All(ss) == \A i \in 1..Len(ss) : ss[i] # <<>>

\* request.POST.get(name, default)
PostGet(args, name, default) == IF name \in DOMAIN args THEN args[name] ELSE default

(***************************************************************************)
(* JSON values: one record shape for every kind, so that a list, an object *)
(* and a scalar can sit side by side in a document.                        *)
(***************************************************************************)
JNull == [s |-> <<>>, kind |-> "null", keys |-> <<>>, items |-> <<>>]

JStr(s) == [s |-> s, kind |-> "str", keys |-> <<>>, items |-> <<>>]

JList(items) == [s |-> <<>>, kind |-> "list", keys |-> <<>>, items |-> items]

JDict(keys, items) == [s |-> <<>>, kind |-> "dict", keys |-> keys, items |-> items]

\* d.get(key, default) of a dict d
DictGet(d, key, default) ==
    IF \E i \in 1..Len(d.keys) : d.keys[i] = key
    THEN d.items[CHOOSE i \in 1..Len(d.keys) : d.keys[i] = key]
    ELSE default

(***************************************************************************)
(* generate_sample_pods                                                    *)
(***************************************************************************)
SampleSuffixes ==
    << <<"-", "w", "e", "b", "-", "0", "0", "1">>,
       <<"-", "w", "e", "b", "-", "0", "0", "2">>,
       <<"-", "a", "p", "i", "-", "0", "0", "1">>,
       <<"-", "w", "o", "r", "k", "e", "r", "-", "0", "0", "1">>,
       <<"-", "e", "r", "r", "o", "r", "-", "p", "o", "d">>,
       <<"-", "w", "a", "r", "n", "-", "s", "e", "r", "v", "i", "c", "e">> >>

ErrorDemo == <<" ", "(", "E", "r", "r", "o", "r", " ", "D", "e", "m", "o", ")">>

WarningDemo == <<" ", "(", "W", "a", "r", "n", "i", "n", "g", " ", "D", "e", "m", "o", ")">>

\* a slip that would look for the labels' markers with '_' once every '_' has
\* been rewritten to '-'
DisplayName_underscore(pod) ==
    Replace(Replace(Replace(pod, <<"_">>, <<"-">>),
                    <<"_", "e", "r", "r", "o", "r", "_", "p", "o", "d">>, ErrorDemo),
            <<"_", "w", "a", "r", "n", "_", "s", "e", "r", "v", "i", "c", "e">>, WarningDemo)

\* pod.replace('_', '-').replace('-error-pod', ' (Error Demo)')
\*    .replace('-warn-service', ' (Warning Demo)')
DisplayName(pod) ==
    Replace(Replace(Replace(pod, <<"_">>, <<"-">>),
                    SampleSuffixes[5], ErrorDemo),
            SampleSuffixes[6], WarningDemo)

SamplePod(pod) ==
    JDict(<< <<"n", "a", "m", "e">>,
             <<"d", "i", "s", "p", "l", "a", "y", "_", "n", "a", "m", "e">> >>,
          <<JStr(pod), JStr(DisplayName(pod))>>)

generate_sample_pods(app, bundle) ==
    [i \in 1..Len(SampleSuffixes) |->
        SamplePod(sanitize_filename(app) \o <<"-">> \o sanitize_filename(bundle)
                  \o SampleSuffixes[i])]

(***************************************************************************)
(* Log text: a sequence of chunks.  A line carries its timestamp (seconds), *)
(* its level, the fixed part of its message and the interpolated values.   *)
(***************************************************************************)
Line(ts, lvl, msg, args) == [k |-> "line", ts |-> ts, lvl |-> lvl, msg |-> msg, args |-> args]

\* a run of whitespace characters
Blank == [k |-> "ws", ts |-> 0, lvl |-> "", msg |-> " ", args |-> <<>>]

\* None where a text is expected
TNone == << [k |-> "None", ts |-> 0, lvl |-> "", msg |-> "", args |-> <<>>] >>

\* truth value of a Python str-or-None
Truthy(text) == text # TNone /\ text # <<>>

RECURSIVE LStripText(_)
LStripText(t) == IF t # <<>> /\ Head(t).k = "ws" THEN LStripText(Tail(t)) ELSE t

RECURSIVE RStripText(_)
RStripText(t) ==
    IF t # <<>> /\ t[Len(t)].k = "ws" THEN RStripText(SubSeq(t, 1, Len(t) - 1)) ELSE t

\* log_content.strip()
StripText(t) == RStripText(LStripText(t))

UpperCase == <<"A", "B", "C", "D", "E", "F", "G", "H", "I", "J", "K", "L", "M",
               "N", "O", "P", "Q", "R", "S", "T", "U", "V", "W", "X", "Y", "Z">>

LowerCase == <<"a", "b", "c", "d", "e", "f", "g", "h", "i", "j", "k", "l", "m",
               "n", "o", "p", "q", "r", "s", "t", "u", "v", "w", "x", "y", "z">>

LowerChar(ch) ==
    IF \E i \in 1..Len(UpperCase) : UpperCase[i] = ch
    THEN LowerCase[CHOOSE i \in 1..Len(UpperCase) : UpperCase[i] = ch]
    ELSE ch

\* str.lower()
Lower(s) == [i \in 1..Len(s) |-> LowerChar(s[i])]

\* any(x in s for x in words)
ContainsAny(s, words) == \E i \in 1..Len(words) : Contains(s, words[i])

ErrorWord == <<"e", "r", "r", "o", "r">>

WarnWord == <<"w", "a", "r", "n">>

WebWords == << <<"w", "e", "b">>, <<"f", "r", "o", "n", "t", "e", "n", "d">>, <<"n", "g", "i", "n", "x">>, <<"u", "i">> >>

ApiWords == << <<"a", "p", "i">>, <<"s", "e", "r", "v", "i", "c", "e">>, <<"g", "a", "t", "e", "w", "a", "y">> >>

WorkerWords == << <<"w", "o", "r", "k", "e", "r">>, <<"p", "r", "o", "c", "e", "s", "s", "o", "r">>, <<"j", "o", "b">> >>

\* the startup sequence (views.py 909-915)
Preamble(app, cluster, bundle, pod, base_time) ==
    << Line(base_time + 0, "INFO", "Starting pod {}", <<pod>>),
       Line(base_time + 1, "INFO", "Application: {}", <<app>>),
       Line(base_time + 2, "INFO", "Cluster: {}", <<cluster>>),
       Line(base_time + 3, "INFO", "Bundle: {}", <<bundle>>),
       Line(base_time + 4, "INFO", "Namespace: {}", <<bundle>>),
       Line(base_time + 5, "INFO", "Container image: {}:latest", <<app>>),
       Line(base_time + 6, "INFO", "Initializing container environment...", <<>>) >>

\* the service-specific startup, by substrings of pod.lower()
Startup(pod, base_time) ==
    IF ContainsAny(Lower(pod), WebWords) THEN
        << Line(base_time + 8, "INFO", "Starting HTTP server on port 8080", <<>>),
           Line(base_time + 10, "INFO", "Loading static assets and configurations", <<>>),
           Line(base_time + 12, "INFO", "Registering routes and middleware", <<>>),
           Line(base_time + 15, "INFO", "Web server ready - accepting connections", <<>>) >>
    ELSE IF ContainsAny(Lower(pod), ApiWords) THEN
        << Line(base_time + 8, "INFO", "Loading API configuration", <<>>),
           Line(base_time + 9, "INFO", "Connecting to database...", <<>>),
           Line(base_time + 11, "INFO", "Database connection established", <<>>),
           Line(base_time + 13, "INFO", "Registering API endpoints", <<>>),
           Line(base_time + 15, "INFO", "API server ready on port 3000", <<>>) >>
    ELSE IF ContainsAny(Lower(pod), WorkerWords) THEN
        << Line(base_time + 8, "INFO", "Connecting to message queue", <<>>),
           Line(base_time + 10, "INFO", "Registering job handlers", <<>>),
           Line(base_time + 12, "INFO", "Starting worker processes", <<>>),
           Line(base_time + 15, "INFO", "Worker ready to process jobs", <<>>) >>
    ELSE
        << Line(base_time + 8, "INFO", "Loading service configuration", <<>>),
           Line(base_time + 10, "INFO", "Initializing service components", <<>>),
           Line(base_time + 12, "INFO", "Service health check passed", <<>>),
           Line(base_time + 15, "INFO", "Service ready and operational", <<>>) >>

\* a slip that would leave out the scenarios
Activity_quiet(pod, current_time) == << Line(current_time + 0, "INFO", "Service running normally", <<>>) >>

\* the operational section, by substrings of pod.lower()
Activity(pod, current_time) ==
    IF Contains(Lower(pod), ErrorWord) THEN
        << Line(current_time + 0, "INFO", "Processing incoming requests...", <<>>),
           Line(current_time + 30, "WARN", "High memory usage detected: 85%", <<>>),
           Line(current_time + 60, "ERROR", "Database connection timeout after 30s", <<>>),
           Line(current_time + 90, "ERROR", "Failed to process request: connection refused", <<>>),
           Line(current_time + 120, "WARN", "Retrying database connection (attempt 1/3)", <<>>),
           Line(current_time + 150, "ERROR", "Authentication failed: invalid credentials", <<>>),
           Line(current_time + 180, "FATAL", "Critical error - service unavailable", <<>>),
           Line(current_time + 200, "ERROR", "Container exit code: 1", <<>>) >>
    ELSE IF Contains(Lower(pod), WarnWord) THEN
        << Line(current_time + 0, "INFO", "Service operational - processing requests", <<>>),
           Line(current_time + 45, "WARN", "High CPU usage detected: 78%", <<>>),
           Line(current_time + 90, "WARN", "Response time degradation: 2.8s (SLA: 1s)", <<>>),
           Line(current_time + 135, "ERROR", "Failed to send notification: SMTP timeout", <<>>),
           Line(current_time + 180, "WARN", "Queue backlog growing: 150 pending items", <<>>),
           Line(current_time + 225, "INFO", "Auto-scaling triggered - adding 2 replicas", <<>>),
           Line(current_time + 270, "WARN", "Memory usage approaching limit: 92%", <<>>),
           Line(current_time + 315, "INFO", "Performance stabilized after scaling", <<>>) >>
    ELSE
        << Line(current_time + 0, "INFO", "Service running normally", <<>>),
           Line(current_time + 60, "INFO", "Processed 250 requests in last minute", <<>>),
           Line(current_time + 120, "INFO", "Health check passed - all systems green", <<>>),
           Line(current_time + 180, "INFO", "Database queries avg response: 45ms", <<>>),
           Line(current_time + 240, "INFO", "Cache hit ratio: 94.2%", <<>>),
           Line(current_time + 300, "INFO", "Background job completed successfully", <<>>),
           Line(current_time + 360, "INFO", "Memory usage: 45% - optimal range", <<>>),
           Line(current_time + 420, "INFO", "Request throughput: 4.2 req/sec", <<>>) >>

\* the recent activity summary; its figures test 'error' in pod, not pod.lower()
Footer(pod, recent_time) ==
    << Line(recent_time + 0, "INFO", "=== Recent Activity Summary ===", <<>>),
       Line(recent_time + 1, "INFO", "Uptime: 1h 28m 15s", <<>>),
       Line(recent_time + 2, "INFO", "Total requests processed: 15,240", <<>>),
       Line(recent_time + 3, "INFO", "Current memory usage: {}%", <<(IF ~Contains(pod, ErrorWord) THEN <<"4", "5">> ELSE <<"9", "5">>)>>),
       Line(recent_time + 4, "INFO", "Current CPU usage: {}%", <<(IF ~Contains(pod, ErrorWord) THEN <<"2", "5">> ELSE <<"9", "8">>)>>),
       Line(recent_time + 5, "INFO", "Network I/O: 2.1 MB/s in, 3.4 MB/s out", <<>>) >>

\* a slip that would return no lines at all
auto_generate_pod_logs_empty(app, cluster, bundle, pod, t) == <<>>

\* "\n".join(logs) at wall-clock time t
auto_generate_pod_logs(app, cluster, bundle, pod, t) ==
    LET base_time == t - 5400
        current_time == base_time + 20
        recent_time == t - 120
    IN  Preamble(app, cluster, bundle, pod, base_time) \o Startup(pod, base_time)
        \o Activity(pod, current_time) \o Footer(pod, recent_time)

(***************************************************************************)
(* The cache (django.core.cache): key -> value with an expiry time.  A     *)
(* value is tagged with its kind so that pod lists, log texts, download    *)
(* lists and counters share one key space.                                 *)
(***************************************************************************)
PODS_CACHE_TIMEOUT == 120

LOGS_CACHE_TIMEOUT == 30

CMiss == [kind |-> "None", pods |-> <<>>, logs |-> <<>>, list |-> <<>>, n |-> 0, doc |-> JNull]

CPods(pods) ==
    [kind |-> "pods", pods |-> pods, logs |-> <<>>, list |-> <<>>, n |-> 0, doc |-> JNull]

CLogs(text) ==
    [kind |-> "logs", pods |-> <<>>, logs |-> text, list |-> <<>>, n |-> 0, doc |-> JNull]

CList(list) ==
    [kind |-> "list", pods |-> <<>>, logs |-> <<>>, list |-> list, n |-> 0, doc |-> JNull]

CInt(n) == [kind |-> "int", pods |-> <<>>, logs |-> <<>>, list |-> <<>>, n |-> n, doc |-> JNull]

\* a cached configuration document (a dict)
CDoc(doc) == [kind |-> "doc", pods |-> <<>>, logs |-> <<>>, list |-> <<>>, n |-> 0, doc |-> doc]

\* truth value of a cached value, as in `if cached_logs:`
CTruthy(v) ==
    \/ v.kind = "pods" /\ v.pods # <<>>
    \/ v.kind = "logs" /\ v.logs # <<>>
    \/ v.kind = "list" /\ v.list # <<>>
    \/ v.kind = "int" /\ v.n # 0
    \/ v.kind = "doc" /\ v.doc.keys # <<>>

\* cache.get(key) at time t: an entry is gone once its expiry time is reached
CacheGet(c, key, t) ==
    IF key \in DOMAIN c /\ c[key].exp > t THEN c[key].val ELSE CMiss

\* cache.set(key, val, ttl) at time t
CacheSet(c, key, val, ttl, t) ==
    [k \in DOMAIN c \cup {key} |->
        IF k = key THEN [val |-> val, exp |-> t + ttl] ELSE c[k]]

\* the entries still alive at time t
Unexpired(c, t) ==
    LET alive == {k \in DOMAIN c : c[k].exp > t} IN [k \in alive |-> c[k]]

(***************************************************************************)
(* The filesystem under app/static/logs: path -> file.  A file is its      *)
(* decoded text, or bytes that are not UTF-8.  A directory exists when it  *)
(* holds a file.                                                           *)
(***************************************************************************)
LogsBaseDir == <<"a", "p", "p", "/", "s", "t", "a", "t", "i", "c", "/", "l", "o", "g", "s">>

DotLog == <<".", "l", "o", "g">>

NoneStr == <<"N", "o", "n", "e">>

TextFile(text) == [enc |-> "utf8", text |-> text]

BadFile == [enc |-> "bad", text |-> <<>>]

\* os.stat(path).st_size == 0
SizeZero(f) == f.enc = "utf8" /\ f.text = <<>>

\* os.path.exists(directory)
DirExists(fs, d) == \E p \in DOMAIN fs : StartsWith(p, d \o <<"/">>)

DigitChars == <<"0", "1", "2", "3", "4", "5", "6", "7", "8", "9">>

\* datetime.now().strftime('%Y-%m-%d'), days counted from the model's day one
DateStr(t) ==
    LET d == (t \div 86400) + 1
    IN  <<"1", "9", "7", "0", "-", "0", "1", "-">>
        \o <<DigitChars[((d \div 10) % 10) + 1], DigitChars[(d % 10) + 1]>>

\* the filename patterns, in the order of the list in get_pod_logs
log_file_patterns(safe_app, safe_cluster, safe_bundle, safe_pod, t) ==
    << safe_pod \o DotLog,
       safe_app \o <<"-">> \o safe_pod \o DotLog,
       safe_bundle \o <<"-">> \o safe_pod \o DotLog,
       safe_app \o <<"-">> \o safe_bundle \o <<"-">> \o safe_pod \o DotLog,
       safe_cluster \o <<"-">> \o safe_bundle \o <<"-">> \o safe_pod \o DotLog,
       safe_pod \o <<"-">> \o DateStr(t) \o DotLog,
       safe_app \o <<"-">> \o safe_pod \o <<"-">> \o DateStr(t) \o DotLog,
       safe_pod \o <<"_", "l", "o", "g", "s">> \o DotLog,
       <<"p", "o", "d", "_">> \o safe_pod \o DotLog,
       safe_app \o <<"_">> \o safe_bundle \o <<"_">> \o safe_pod \o DotLog >>

\* a slip that would leave the flat pods directory out of the search
search_directories_nopods(safe_app, safe_cluster, safe_bundle) ==
    << LogsBaseDir,
       PathJoin(LogsBaseDir, safe_app),
       PathJoin(LogsBaseDir, safe_cluster),
       PathJoin(LogsBaseDir, safe_bundle),
       PathJoin(PathJoin(LogsBaseDir, safe_app), safe_cluster),
       PathJoin(PathJoin(LogsBaseDir, safe_app), safe_bundle),
       PathJoin(PathJoin(LogsBaseDir, safe_cluster), safe_bundle),
       PathJoin(PathJoin(LogsBaseDir, <<"k", "u", "b", "e", "r", "n", "e", "t", "e", "s">>),
                safe_cluster) >>

\* a slip that would put the directories that name two identifiers first
search_directories_specific(safe_app, safe_cluster, safe_bundle) ==
    << PathJoin(PathJoin(LogsBaseDir, safe_app), safe_cluster),
       PathJoin(PathJoin(LogsBaseDir, safe_app), safe_bundle),
       PathJoin(PathJoin(LogsBaseDir, safe_cluster), safe_bundle),
       PathJoin(LogsBaseDir, safe_app),
       PathJoin(LogsBaseDir, safe_cluster),
       PathJoin(LogsBaseDir, safe_bundle),
       PathJoin(PathJoin(LogsBaseDir, <<"k", "u", "b", "e", "r", "n", "e", "t", "e", "s">>),
                safe_cluster),
       PathJoin(LogsBaseDir, <<"p", "o", "d", "s">>),
       LogsBaseDir >>

\* the directories, in the order of the list in get_pod_logs
search_directories(safe_app, safe_cluster, safe_bundle) ==
    << LogsBaseDir,
       PathJoin(LogsBaseDir, safe_app),
       PathJoin(LogsBaseDir, safe_cluster),
       PathJoin(LogsBaseDir, safe_bundle),
       PathJoin(PathJoin(LogsBaseDir, safe_app), safe_cluster),
       PathJoin(PathJoin(LogsBaseDir, safe_app), safe_bundle),
       PathJoin(PathJoin(LogsBaseDir, safe_cluster), safe_bundle),
       PathJoin(PathJoin(LogsBaseDir, <<"k", "u", "b", "e", "r", "n", "e", "t", "e", "s">>),
                safe_cluster),
       PathJoin(LogsBaseDir, <<"p", "o", "d", "s">>) >>

\* a slip that would leave the pattern loop (break for continue) at a file
\* that cannot be decoded
RECURSIVE ScanPatterns_stop(_, _, _, _, _)
ScanPatterns_stop(fs, dir, pats, i, st) ==
    IF i > Len(pats) THEN st
    ELSE
      LET log_path == PathJoin(dir, pats[i])
          st1 == [st EXCEPT !.probed = @ \cup {log_path}]
      IN  IF log_path \notin DOMAIN fs THEN ScanPatterns_stop(fs, dir, pats, i + 1, st1)
          ELSE IF SizeZero(fs[log_path]) THEN ScanPatterns_stop(fs, dir, pats, i + 1, st1)
          ELSE IF fs[log_path].enc = "bad" THEN st1
          ELSE
            LET st2 == [st1 EXCEPT !.log_content = fs[log_path].text]
            IN  IF StripText(st2.log_content) # <<>>
                THEN [st2 EXCEPT !.found_log_file = log_path]
                ELSE ScanPatterns_stop(fs, dir, pats, i + 1, st2)

\* the inner loop of Stage 1 over the patterns of one directory, from pattern i;
\* st carries log_content, found_log_file and the paths looked at
RECURSIVE ScanPatterns(_, _, _, _, _)
ScanPatterns(fs, dir, pats, i, st) ==
    IF i > Len(pats) THEN st
    ELSE
      LET log_path == PathJoin(dir, pats[i])
          st1 == [st EXCEPT !.probed = @ \cup {log_path}]
      IN  IF log_path \notin DOMAIN fs THEN ScanPatterns(fs, dir, pats, i + 1, st1)
          ELSE IF SizeZero(fs[log_path]) THEN ScanPatterns(fs, dir, pats, i + 1, st1)
          ELSE IF fs[log_path].enc = "bad" THEN ScanPatterns(fs, dir, pats, i + 1, st1)
          ELSE
            LET st2 == [st1 EXCEPT !.log_content = fs[log_path].text]
            IN  IF StripText(st2.log_content) # <<>>
                THEN [st2 EXCEPT !.found_log_file = log_path]
                ELSE ScanPatterns(fs, dir, pats, i + 1, st2)

\* the outer loop of Stage 1 over the directories, from directory j
RECURSIVE ScanDirs(_, _, _, _, _)
ScanDirs(fs, dirs, pats, j, st) ==
    IF j > Len(dirs) THEN st
    ELSE
      LET st0 == [st EXCEPT !.probed = @ \cup {dirs[j]}]
      IN  IF ~DirExists(fs, dirs[j]) THEN ScanDirs(fs, dirs, pats, j + 1, st0)
          ELSE
            LET st1 == ScanPatterns(fs, dirs[j], pats, 1, st0)
            IN  IF Truthy(st1.log_content) THEN st1
                ELSE ScanDirs(fs, dirs, pats, j + 1, st1)

\* Stage 1 as a whole
SearchLogFiles(fs, dirs, pats) ==
    ScanDirs(fs, dirs, pats, 1,
             [log_content |-> TNone, found_log_file |-> NoneStr, probed |-> {}])

\* the paths of Stage 1 in the order of the loops: directories outside,
\* filename patterns inside
CandidatePaths(dirs, pats) ==
    [k \in 1..(Len(dirs) * Len(pats)) |->
        PathJoin(dirs[((k - 1) \div Len(pats)) + 1], pats[((k - 1) % Len(pats)) + 1])]

\* the candidates of a request at time t
CandidatesOf(args, t) ==
    CandidatePaths(search_directories(sanitize_filename(Strip(args.application)),
                                      sanitize_filename(Strip(args.cluster)),
                                      sanitize_filename(Strip(args.bundle))),
                   log_file_patterns(sanitize_filename(Strip(args.application)),
                                     sanitize_filename(Strip(args.cluster)),
                                     sanitize_filename(Strip(args.bundle)),
                                     sanitize_filename(Strip(args.pod)), t))

(***************************************************************************)
(* fetch_kubernetes_logs: the outcome of the kubectl run is the            *)
(* environment's choice.                                                   *)
(***************************************************************************)
RealText == << Line(0, "INFO", "operator log", <<>>) >>

KubectlOutcomes ==
    { [kind |-> "notfound", stdout |-> <<>>],
      [kind |-> "timeout", stdout |-> <<>>],
      [kind |-> "nonzero", stdout |-> <<>>],
      [kind |-> "error", stdout |-> <<>>],
      [kind |-> "ok", stdout |-> <<>>],
      [kind |-> "ok", stdout |-> <<Blank>>],
      [kind |-> "ok", stdout |-> << Line(0, "INFO", "kubectl log", <<>>) >>] }

\* the command line of kubectl
kubectl_cmd(cluster, bundle, pod) ==
    << <<"k", "u", "b", "e", "c", "t", "l">>, <<"l", "o", "g", "s">>, pod, <<"-", "n">>, bundle >>
    \o (IF cluster # <<>> /\ cluster # <<"d", "e", "f", "a", "u", "l", "t">>
        THEN << <<"-", "-", "c", "o", "n", "t", "e", "x", "t">>, cluster >> ELSE <<>>)

\* a slip that would hand back the error output of a failed command
fetch_kubernetes_logs_stderr(app, cluster, bundle, pod, ko) ==
    IF ko.kind = "ok" THEN ko.stdout
    ELSE IF ko.kind = "nonzero" THEN << Line(0, "ERROR", "kubectl failed", <<>>) >>
    ELSE TNone

\* stdout when the command exits with 0, None on every failure
fetch_kubernetes_logs(app, cluster, bundle, pod, ko) ==
    IF ko.kind = "ok" THEN ko.stdout ELSE TNone

(***************************************************************************)
(* auto_save_generated_logs: the flat file, then the hierarchical one; a   *)
(* failure (wr) ends the function where it happens and is swallowed.       *)
(***************************************************************************)
WriteOutcomes == {"ok", "flat_fails", "hier_fails"}

FlatPath(app, bundle, pod) ==
    PathJoin(PathJoin(LogsBaseDir, <<"p", "o", "d", "s">>),
             app \o <<"-">> \o bundle \o <<"-">> \o pod \o DotLog)

HierarchicalPath(app, cluster, bundle, pod) ==
    PathJoin(PathJoin(PathJoin(PathJoin(LogsBaseDir, app), cluster), bundle),
             pod \o DotLog)

\* open(path, 'w').write(text)
WriteFile(fs, path, text) ==
    [q \in DOMAIN fs \cup {path} |-> IF q = path THEN TextFile(text) ELSE fs[q]]

\* the paths written under outcome wr
SavedPaths(app, cluster, bundle, pod, wr) ==
    IF wr = "flat_fails" THEN {}
    ELSE IF wr = "hier_fails" THEN {FlatPath(app, bundle, pod)}
    ELSE {FlatPath(app, bundle, pod), HierarchicalPath(app, cluster, bundle, pod)}

\* a slip that would never write the flat file
auto_save_generated_logs_noflat(fs, app, cluster, bundle, pod, log_content, wr) ==
    IF wr = "ok"
    THEN WriteFile(fs, HierarchicalPath(app, cluster, bundle, pod), log_content)
    ELSE fs

\* a slip that would save the text with a banner in front of it
auto_save_generated_logs_banner(fs, app, cluster, bundle, pod, log_content, wr) ==
    IF wr = "flat_fails" THEN fs
    ELSE IF wr = "hier_fails"
    THEN WriteFile(fs, FlatPath(app, bundle, pod),
                   << [k |-> "banner", ts |-> 0, lvl |-> "#", msg |-> "LogOps - Log File Viewer",
                       args |-> <<>>] >> \o log_content)
    ELSE WriteFile(WriteFile(fs, FlatPath(app, bundle, pod),
                             << [k |-> "banner", ts |-> 0, lvl |-> "#",
                                 msg |-> "LogOps - Log File Viewer", args |-> <<>>] >>
                             \o log_content),
                   HierarchicalPath(app, cluster, bundle, pod), log_content)

auto_save_generated_logs(fs, app, cluster, bundle, pod, log_content, wr) ==
    IF wr = "flat_fails" THEN fs
    ELSE IF wr = "hier_fails" THEN WriteFile(fs, FlatPath(app, bundle, pod), log_content)
    ELSE WriteFile(WriteFile(fs, FlatPath(app, bundle, pod), log_content),
                   HierarchicalPath(app, cluster, bundle, pod), log_content)

(***************************************************************************)
(* Requests, responses and the effects of one handler run.                 *)
(***************************************************************************)
NoEffects ==
    [cget |-> {}, cset |-> {}, fread |-> {}, fwrite |-> {}, kubectl |-> <<>>, live |-> "",
     mail |-> <<>>, http |-> <<>>, save |-> ""]

\* a JsonResponse: its status, whether it has an "error" field, its payload
\* fields, and the stage that produced it
Response(ep, status, error, logs, pods, success, stage) ==
    [pods |-> pods, logs |-> logs, ep |-> ep, status |-> status, error |-> error,
     success |-> success, stage |-> stage]

NoResponse == Response("none", 0, FALSE, <<>>, <<>>, FALSE, "none")

NoRequest == [ep |-> "none", args |-> [none |-> <<>>]]

(***************************************************************************)
(* get_pods                                                                *)
(***************************************************************************)
PodsConfigPath ==
    <<"a", "p", "p", "/", "s", "t", "a", "t", "i", "c", "/", "p", "o", "d", "s", "_",
      "c", "o", "n", "f", "i", "g", ".", "j", "s", "o", "n">>

PodsCacheKey(app, cluster, bundle) ==
    <<"p", "o", "d", "s", "_">> \o sanitize_filename(app) \o <<"_">>
    \o sanitize_filename(cluster) \o <<"_">> \o sanitize_filename(bundle)

\* the walk app -> cluster -> bundle through a parsed document: .get on a value
\* that is not a dict raises AttributeError
ConfigLookup(doc, app, cluster, bundle) ==
    IF doc.kind # "dict" THEN [exc |-> "AttributeError", pods |-> <<>>]
    ELSE
      LET app_config == DictGet(doc, app, JDict(<<>>, <<>>))
      IN  IF app_config.kind # "dict" THEN [exc |-> "AttributeError", pods |-> <<>>]
          ELSE
            LET cluster_config == DictGet(app_config, cluster, JDict(<<>>, <<>>))
            IN  IF cluster_config.kind # "dict"
                THEN [exc |-> "AttributeError", pods |-> <<>>]
                ELSE
                  LET bundle_pods == DictGet(cluster_config, bundle, JList(<<>>))
                  IN  [exc |-> "none",
                       pods |-> IF bundle_pods.kind = "list" THEN bundle_pods.items
                                ELSE <<>>]

\* lines 120-142: what the configuration file yields, and the exception that
\* escapes the inner try, if any
LoadPodsConfig(cfg, app, cluster, bundle) ==
    IF cfg.st = "absent" THEN [exc |-> "none", pods |-> <<>>]
    ELSE IF cfg.st = "undecodable" THEN [exc |-> "UnicodeDecodeError", pods |-> <<>>]
    ELSE IF cfg.st = "invalid" THEN [exc |-> "none", pods |-> <<>>]
    ELSE ConfigLookup(cfg.json, app, cluster, bundle)

\* a slip that would forget the bundle in the validation
PodsFieldsPresent_nobundle(app, cluster, bundle) == All(<<app, cluster>>)

\* all([app, cluster, bundle])
PodsFieldsPresent(app, cluster, bundle) == All(<<app, cluster, bundle>>)

\* a slip that would always generate the sample pods
UseSample_always(pods) == TRUE

\* `if not pods:` after the configuration was consulted
UseSample(pods) == pods = <<>>

\* a slip that would keep the list for half the time
PodsCall_halfttl(c, cfg, t, args) ==
    LET app == Strip(PostGet(args, "application", <<>>))
        cluster == Strip(PostGet(args, "cluster", <<>>))
        bundle == Strip(PostGet(args, "bundle", <<>>))
    IN  IF ~PodsFieldsPresent(app, cluster, bundle)
        THEN [resp |-> Response("get_pods", 400, TRUE, <<>>, <<>>, FALSE, "invalid"),
              cache |-> c, effects |-> NoEffects]
        ELSE
          LET cache_key == PodsCacheKey(app, cluster, bundle)
              cached_pods == CacheGet(c, cache_key, t)
              eff1 == [NoEffects EXCEPT !.cget = {cache_key}]
          IN  IF CTruthy(cached_pods)
              THEN [resp |-> Response("get_pods", 200, FALSE, <<>>, cached_pods.pods,
                                      FALSE, "cache"),
                    cache |-> c, effects |-> eff1]
              ELSE
                LET loaded == LoadPodsConfig(cfg, app, cluster, bundle)
                    eff2 == [eff1 EXCEPT !.fread = {PodsConfigPath}]
                IN  IF loaded.exc # "none"
                    THEN [resp |-> Response("get_pods", 500, TRUE, <<>>, <<>>, FALSE,
                                            "error"),
                          cache |-> c, effects |-> eff2]
                    ELSE
                      LET sample == UseSample(loaded.pods)
                          pods == IF sample THEN generate_sample_pods(app, bundle)
                                  ELSE loaded.pods
                      IN  [resp |-> Response("get_pods", 200, FALSE, <<>>, pods, FALSE,
                                             IF sample THEN "sample" ELSE "config"),
                           cache |-> CacheSet(c, cache_key, CPods(pods),
                                              PODS_CACHE_TIMEOUT \div 2, t),
                           effects |-> [eff2 EXCEPT !.cset = {cache_key}]]

\* the whole handler at time t: the response, the cache afterwards and the
\* effects of the run
PodsCall(c, cfg, t, args) ==
    LET app == Strip(PostGet(args, "application", <<>>))
        cluster == Strip(PostGet(args, "cluster", <<>>))
        bundle == Strip(PostGet(args, "bundle", <<>>))
    IN  IF ~PodsFieldsPresent(app, cluster, bundle)
        THEN [resp |-> Response("get_pods", 400, TRUE, <<>>, <<>>, FALSE, "invalid"),
              cache |-> c, effects |-> NoEffects]
        ELSE
          LET cache_key == PodsCacheKey(app, cluster, bundle)
              cached_pods == CacheGet(c, cache_key, t)
              eff1 == [NoEffects EXCEPT !.cget = {cache_key}]
          IN  IF CTruthy(cached_pods)
              THEN [resp |-> Response("get_pods", 200, FALSE, <<>>, cached_pods.pods,
                                      FALSE, "cache"),
                    cache |-> c, effects |-> eff1]
              ELSE
                LET loaded == LoadPodsConfig(cfg, app, cluster, bundle)
                    eff2 == [eff1 EXCEPT !.fread = {PodsConfigPath}]
                IN  IF loaded.exc # "none"
                    THEN [resp |-> Response("get_pods", 500, TRUE, <<>>, <<>>, FALSE,
                                            "error"),
                          cache |-> c, effects |-> eff2]
                    ELSE
                      LET sample == UseSample(loaded.pods)
                          pods == IF sample THEN generate_sample_pods(app, bundle)
                                  ELSE loaded.pods
                      IN  [resp |-> Response("get_pods", 200, FALSE, <<>>, pods, FALSE,
                                             IF sample THEN "sample" ELSE "config"),
                           cache |-> CacheSet(c, cache_key, CPods(pods),
                                              PODS_CACHE_TIMEOUT, t),
                           effects |-> [eff2 EXCEPT !.cset = {cache_key}]]

(***************************************************************************)
(* get_pod_logs                                                            *)
(***************************************************************************)
LogsCacheKey(safe_app, safe_cluster, safe_bundle, safe_pod) ==
    <<"p", "o", "d", "_", "l", "o", "g", "s", "_">> \o safe_app \o <<"_">>
    \o safe_cluster \o <<"_">> \o safe_bundle \o <<"_">> \o safe_pod

\* the metadata banner put before the content (log_metadata)
Banner(t, found_log_file, pod, app, cluster, bundle) ==
    [k |-> "banner", ts |-> t, lvl |-> "#", msg |-> "LogOps - Log File Viewer",
     args |-> <<found_log_file, pod, app, cluster, bundle>>]

KubernetesApi == <<"k", "u", "b", "e", "r", "n", "e", "t", "e", "s", "-", "a", "p", "i">>

AutoGenerated == <<"a", "u", "t", "o", "-", "g", "e", "n", "e", "r", "a", "t", "e", "d">>

\* a slip that would forget the pod in the validation
LogsFieldsPresent_nopod(app, cluster, bundle, pod) == All(<<app, cluster, bundle>>)

\* all([app, cluster, bundle, pod])
LogsFieldsPresent(app, cluster, bundle, pod) == All(<<app, cluster, bundle, pod>>)

\* a slip that would return the content without the banner
Finalize_nobanner(t, found_log_file, pod, app, cluster, bundle, log_content) == log_content

\* final_log_content = log_metadata + log_content
Finalize(t, found_log_file, pod, app, cluster, bundle, log_content) ==
    <<Banner(t, found_log_file, pod, app, cluster, bundle)>> \o log_content

\* a slip that would save whatever was resolved, not only what was synthesized
Resolved_saveall(fs, t, app, cluster, bundle, pod, probed, live, synth, log_content, found_log_file, ko, wr) ==
    [log_content |-> log_content,
     found_log_file |-> found_log_file,
     final |-> Finalize(t, found_log_file, pod, app, cluster, bundle, log_content),
     files |-> auto_save_generated_logs(fs, sanitize_filename(app),
                                        sanitize_filename(cluster),
                                        sanitize_filename(bundle),
                                        sanitize_filename(pod), log_content, wr),
     stage |-> IF synth THEN "auto-generated"
               ELSE IF live THEN "kubernetes-api" ELSE "file",
     probed |-> probed,
     written |-> SavedPaths(sanitize_filename(app), sanitize_filename(cluster),
                            sanitize_filename(bundle), sanitize_filename(pod), wr),
     kubectl |-> IF live
                 THEN <<kubectl_cmd(sanitize_filename(cluster), sanitize_filename(bundle),
                                    sanitize_filename(pod))>>
                 ELSE <<>>,
     live |-> IF live THEN ko.kind ELSE "",
     save |-> IF synth THEN wr ELSE ""]

\* the answer of a run that missed the cache: the content, its source, the
\* final text, the files afterwards, and what the run looked at and wrote
Resolved(fs, t, app, cluster, bundle, pod, probed, live, synth, log_content, found_log_file, ko, wr) ==
    [log_content |-> log_content,
     found_log_file |-> found_log_file,
     final |-> Finalize(t, found_log_file, pod, app, cluster, bundle, log_content),
     files |-> IF synth
               THEN auto_save_generated_logs(fs, sanitize_filename(app),
                                             sanitize_filename(cluster),
                                             sanitize_filename(bundle),
                                             sanitize_filename(pod), log_content, wr)
               ELSE fs,
     stage |-> IF synth THEN "auto-generated"
               ELSE IF live THEN "kubernetes-api" ELSE "file",
     probed |-> probed,
     written |-> IF synth
                 THEN SavedPaths(sanitize_filename(app), sanitize_filename(cluster),
                                 sanitize_filename(bundle), sanitize_filename(pod), wr)
                 ELSE {},
     kubectl |-> IF live
                 THEN <<kubectl_cmd(sanitize_filename(cluster), sanitize_filename(bundle),
                                    sanitize_filename(pod))>>
                 ELSE <<>>,
     live |-> IF live THEN ko.kind ELSE "",
     save |-> IF synth THEN wr ELSE ""]

\* Stages 3 and 4: `if not log_content:` synthesize and save
Synthesize(fs, t, app, cluster, bundle, pod, probed, live, log_content, found_log_file, ko, wr) ==
    Resolved(fs, t, app, cluster, bundle, pod, probed, live, ~Truthy(log_content),
             IF ~Truthy(log_content)
             THEN auto_generate_pod_logs(app, cluster, bundle, pod, t)
             ELSE log_content,
             IF ~Truthy(log_content) THEN AutoGenerated ELSE found_log_file,
             ko, wr)

\* Stage 2: `if not log_content:` fetch from kubectl; s1 is the result of
\* Stage 1
LiveFetch(fs, t, app, cluster, bundle, pod, s1, fetched, ko, wr) ==
    Synthesize(fs, t, app, cluster, bundle, pod, s1.probed, ~Truthy(s1.log_content),
               IF ~Truthy(s1.log_content) THEN fetched ELSE s1.log_content,
               IF ~Truthy(s1.log_content) /\ Truthy(fetched) THEN KubernetesApi
               ELSE s1.found_log_file,
               ko, wr)

\* Stages 1 to 4 and the finalization, on a cache miss at time t, with the
\* kubectl outcome ko and the write outcome wr
ResolveLogs(fs, t, app, cluster, bundle, pod, ko, wr) ==
    LiveFetch(fs, t, app, cluster, bundle, pod,
              SearchLogFiles(fs,
                             search_directories(sanitize_filename(app),
                                                sanitize_filename(cluster),
                                                sanitize_filename(bundle)),
                             log_file_patterns(sanitize_filename(app),
                                               sanitize_filename(cluster),
                                               sanitize_filename(bundle),
                                               sanitize_filename(pod), t)),
              fetch_kubernetes_logs(sanitize_filename(app), sanitize_filename(cluster),
                                    sanitize_filename(bundle), sanitize_filename(pod), ko),
              ko, wr)

\* a slip that would let a failed save escape as an error of the request
LogsMiss_strict(c, fs, t, cache_key, r) ==
    IF r.save \in {"flat_fails", "hier_fails"}
    THEN [resp |-> Response("get_pod_logs", 500, TRUE, <<>>, <<>>, FALSE, "error"),
          cache |-> c,
          files |-> r.files,
          effects |-> [NoEffects EXCEPT !.cget = {cache_key},
                                        !.fread = r.probed,
                                        !.fwrite = r.written,
                                        !.kubectl = r.kubectl,
                                        !.live = r.live,
                                        !.save = r.save]]
    ELSE [resp |-> Response("get_pod_logs", 200, FALSE, r.final, <<>>, FALSE, r.stage),
          cache |-> CacheSet(c, cache_key, CLogs(r.final), LOGS_CACHE_TIMEOUT, t),
          files |-> r.files,
          effects |-> [NoEffects EXCEPT !.cget = {cache_key},
                                        !.cset = {cache_key},
                                        !.fread = r.probed,
                                        !.fwrite = r.written,
                                        !.kubectl = r.kubectl,
                                        !.live = r.live,
                                        !.save = r.save]]

\* the answer on a cache miss, cached for 30 seconds
LogsMiss(c, fs, t, cache_key, r) ==
    [resp |-> Response("get_pod_logs", 200, FALSE, r.final, <<>>, FALSE, r.stage),
     cache |-> CacheSet(c, cache_key, CLogs(r.final), LOGS_CACHE_TIMEOUT, t),
     files |-> r.files,
     effects |-> [NoEffects EXCEPT !.cget = {cache_key},
                                   !.cset = {cache_key},
                                   !.fread = r.probed,
                                   !.fwrite = r.written,
                                   !.kubectl = r.kubectl,
                                   !.live = r.live,
                                   !.save = r.save]]

\* a slip that would store the entry again on a hit and so renew its expiry
LogsLookup_refresh(c, fs, t, app, cluster, bundle, pod, cache_key, cached_logs, ko, wr) ==
    IF CTruthy(cached_logs)
    THEN [resp |-> Response("get_pod_logs", 200, FALSE, cached_logs.logs, <<>>, FALSE,
                            "cache"),
          cache |-> CacheSet(c, cache_key, cached_logs, LOGS_CACHE_TIMEOUT, t),
          files |-> fs,
          effects |-> [NoEffects EXCEPT !.cget = {cache_key}]]
    ELSE LogsMiss(c, fs, t, cache_key,
                  ResolveLogs(fs, t, app, cluster, bundle, pod, ko, wr))

\* the answer when the cache may hold the text
LogsLookup(c, fs, t, app, cluster, bundle, pod, cache_key, cached_logs, ko, wr) ==
    IF CTruthy(cached_logs)
    THEN [resp |-> Response("get_pod_logs", 200, FALSE, cached_logs.logs, <<>>, FALSE,
                            "cache"),
          cache |-> c, files |-> fs,
          effects |-> [NoEffects EXCEPT !.cget = {cache_key}]]
    ELSE LogsMiss(c, fs, t, cache_key,
                  ResolveLogs(fs, t, app, cluster, bundle, pod, ko, wr))

\* the handler once the fields are stripped
LogsAnswer(c, fs, t, app, cluster, bundle, pod, cache_key, ko, wr) ==
    IF ~LogsFieldsPresent(app, cluster, bundle, pod)
    THEN [resp |-> Response("get_pod_logs", 400, TRUE, <<>>, <<>>, FALSE, "invalid"),
          cache |-> c, files |-> fs, effects |-> NoEffects]
    ELSE LogsLookup(c, fs, t, app, cluster, bundle, pod, cache_key,
                    CacheGet(c, cache_key, t), ko, wr)

\* the whole handler at time t: the response, the cache and the files
\* afterwards, and the effects of the run
PodLogsCall(c, fs, t, args, ko, wr) ==
    LogsAnswer(c, fs, t,
               Strip(PostGet(args, "application", <<>>)),
               Strip(PostGet(args, "cluster", <<>>)),
               Strip(PostGet(args, "bundle", <<>>)),
               Strip(PostGet(args, "pod", <<>>)),
               LogsCacheKey(sanitize_filename(Strip(PostGet(args, "application", <<>>))),
                            sanitize_filename(Strip(PostGet(args, "cluster", <<>>))),
                            sanitize_filename(Strip(PostGet(args, "bundle", <<>>))),
                            sanitize_filename(Strip(PostGet(args, "pod", <<>>)))),
               ko, wr)

(***************************************************************************)
(* track_download                                                          *)
(***************************************************************************)
RECENT_DOWNLOADS_CAP == 10

RECENT_DOWNLOADS_TIMEOUT == 3600

COUNTER_TIMEOUT == 86400

Unknown == <<"u", "n", "k", "n", "o", "w", "n">>

TotalDownloadsKey ==
    <<"t", "o", "t", "a", "l", "_", "d", "o", "w", "n", "l", "o", "a", "d", "s", "_",
      "t", "o", "d", "a", "y">>

DailyCounterKey(t) == <<"d", "o", "w", "n", "l", "o", "a", "d", "s", "_">> \o DateStr(t)

RecentDownloadsKey(client_ip) ==
    <<"r", "e", "c", "e", "n", "t", "_", "d", "o", "w", "n", "l", "o", "a", "d", "s", "_">>
    \o client_ip

DigitValue(ch) == (CHOOSE i \in 1..Len(DigitChars) : DigitChars[i] = ch) - 1

RECURSIVE DigitsValue(_, _)
DigitsValue(s, acc) ==
    IF s = <<>> THEN acc ELSE DigitsValue(Tail(s), 10 * acc + DigitValue(Head(s)))

\* a slip that would read the digits and skip the rest
ParseSize_lenient(log_size) == DigitsValue(SelectSeq(log_size, LAMBDA ch : ch \in Digits), 0)

\* int(log_size), 0 on ValueError: an optional sign and decimal digits
ParseSize(log_size) ==
    LET body == IF log_size # <<>> /\ Head(log_size) \in {"+", "-"} THEN Tail(log_size)
                ELSE log_size
    IN  IF body = <<>> \/ \E i \in 1..Len(body) : body[i] \notin Digits THEN 0
        ELSE IF Head(log_size) = "-" THEN 0 - DigitsValue(body, 0)
        ELSE DigitsValue(body, 0)

PauseStep == RECENT_DOWNLOADS_TIMEOUT \div 2

\* a slip that would keep the oldest entries
LastN_oldest(list, n) == IF Len(list) > n THEN SubSeq(list, 1, n) ELSE list

\* recent_downloads[-10:]
LastN(list, n) == IF Len(list) > n THEN SubSeq(list, Len(list) - n + 1, Len(list)) ELSE list

\* the whole handler at time t for a client at client_ip
TrackDownloadCall(c, t, args, client_ip) ==
    LET filename == Strip(PostGet(args, "filename", <<>>))
        app == Strip(PostGet(args, "app", <<>>))
        cluster == Strip(PostGet(args, "cluster", <<>>))
        bundle == Strip(PostGet(args, "bundle", <<>>))
        pod == Strip(PostGet(args, "pod", <<>>))
        log_size == Strip(PostGet(args, "log_size", <<"0">>))
    IN  IF filename = <<>>
        THEN [resp |-> Response("track_download", 400, TRUE, <<>>, <<>>, FALSE, "invalid"),
              cache |-> c, effects |-> NoEffects]
        ELSE
          LET download_stats ==
                [pod |-> IF pod # <<>> THEN sanitize_filename(pod) ELSE Unknown,
                 bundle |-> IF bundle # <<>> THEN sanitize_filename(bundle) ELSE Unknown,
                 cluster |-> IF cluster # <<>> THEN sanitize_filename(cluster) ELSE Unknown,
                 client_ip |-> client_ip,
                 filename |-> sanitize_filename(filename),
                 application |-> IF app # <<>> THEN sanitize_filename(app) ELSE Unknown,
                 file_size |-> ParseSize(log_size),
                 timestamp |-> t]
              recent_key == RecentDownloadsKey(client_ip)
              got == CacheGet(c, recent_key, t)
              recent == (IF got.kind = "None" THEN <<>> ELSE got.list) \o <<download_stats>>
              c1 == CacheSet(c, recent_key, CList(LastN(recent, RECENT_DOWNLOADS_CAP)),
                             RECENT_DOWNLOADS_TIMEOUT, t)
              c2 == CacheSet(c1, TotalDownloadsKey,
                             CInt(CacheGet(c1, TotalDownloadsKey, t).n + 1),
                             COUNTER_TIMEOUT, t)
              c3 == CacheSet(c2, DailyCounterKey(t),
                             CInt(CacheGet(c2, DailyCounterKey(t), t).n + 1),
                             COUNTER_TIMEOUT, t)
              keys == {recent_key, TotalDownloadsKey, DailyCounterKey(t)}
          IN  [resp |-> Response("track_download", 200, FALSE, <<>>, <<>>, TRUE, "tracked"),
               cache |-> c3,
               effects |-> [NoEffects EXCEPT !.cget = keys, !.cset = keys]]

\* track_download seen by concurrent requests: every cache.get and cache.set
\* is one step, and a call in flight holds what it has read
Workers == 1..MaxWorkers

IdleCall == [args |-> [none |-> <<>>], t |-> 0, list |-> <<>>, n |-> 0, pc |-> "idle", ip |-> <<>>]

\* the event record built from the request
DownloadStats(args, client_ip, t) ==
    [pod |-> IF Strip(PostGet(args, "pod", <<>>)) # <<>>
             THEN sanitize_filename(Strip(PostGet(args, "pod", <<>>))) ELSE Unknown,
     bundle |-> IF Strip(PostGet(args, "bundle", <<>>)) # <<>>
                THEN sanitize_filename(Strip(PostGet(args, "bundle", <<>>))) ELSE Unknown,
     cluster |-> IF Strip(PostGet(args, "cluster", <<>>)) # <<>>
                 THEN sanitize_filename(Strip(PostGet(args, "cluster", <<>>))) ELSE Unknown,
     client_ip |-> client_ip,
     filename |-> sanitize_filename(Strip(PostGet(args, "filename", <<>>))),
     application |-> IF Strip(PostGet(args, "app", <<>>)) # <<>>
                     THEN sanitize_filename(Strip(PostGet(args, "app", <<>>))) ELSE Unknown,
     file_size |-> ParseSize(Strip(PostGet(args, "log_size", <<"0">>))),
     timestamp |-> t]

\* recent_downloads = cache.get(recent_downloads_key, [])
ReadRecent(c, t, args, client_ip) ==
    [args |-> args, t |-> t, list |-> CacheGet(c, RecentDownloadsKey(client_ip), t).list,
     n |-> 0, pc |-> "recent_set", ip |-> client_ip]

\* append, cut to the last 10, cache.set(recent_downloads_key, ..., 3600)
WriteRecent(c, t, call) ==
    CacheSet(c, RecentDownloadsKey(call.ip),
             CList(LastN(call.list \o <<DownloadStats(call.args, call.ip, call.t)>>,
                         RECENT_DOWNLOADS_CAP)),
             RECENT_DOWNLOADS_TIMEOUT, t)

\* cache.get(key, 0)
ReadCounter(c, t, key) == CacheGet(c, key, t).n

\* cache.set(key, value read + 1, 86400)
WriteCounter(c, t, key, n) == CacheSet(c, key, CInt(n + 1), COUNTER_TIMEOUT, t)

(***************************************************************************)
(* get_app_config                                                          *)
(***************************************************************************)
APP_CONFIG_CACHE_TIMEOUT == 300

AppConfigKey == <<"a", "p", "p", "_", "c", "o", "n", "f", "i", "g">>

AppConfigPath == <<"a", "p", "p", "/", "s", "t", "a", "t", "i", "c", "/", "a", "p", "p", "_", "c", "o", "n", "f", "i", "g", ".", "j", "s", "o", "n">>

\* a JsonResponse of get_app_config: the document, or an error and its message
ConfigResponse(status, error, stage, body, message) ==
    [pods |-> <<>>, logs |-> <<>>, ep |-> "get_app_config", status |-> status,
     error |-> error, success |-> FALSE, stage |-> stage, message |-> message,
     body |-> body]

\* a slip that would leave out the test of the top level
IsDictionary_any(data) == TRUE

\* isinstance(data, dict)
IsDictionary(data) == data.kind = "dict"

\* open, json.load and the validation, with the except clauses
LoadAppConfig(c, cfg, t) ==
    IF cfg.st = "absent"
    THEN [resp |-> ConfigResponse(404, TRUE, "FileNotFoundError", JNull,
                                  "Configuration file not found"),
          cache |-> c,
          effects |-> [NoEffects EXCEPT !.cget = {AppConfigKey}, !.fread = {AppConfigPath}]]
    ELSE IF cfg.st = "invalid"
    THEN [resp |-> ConfigResponse(400, TRUE, "JSONDecodeError", JNull,
                                  "Invalid configuration format"),
          cache |-> c,
          effects |-> [NoEffects EXCEPT !.cget = {AppConfigKey}, !.fread = {AppConfigPath}]]
    ELSE IF cfg.st = "undecodable"
    THEN [resp |-> ConfigResponse(500, TRUE, "UnicodeDecodeError", JNull,
                                  "Failed to load configuration"),
          cache |-> c,
          effects |-> [NoEffects EXCEPT !.cget = {AppConfigKey}, !.fread = {AppConfigPath}]]
    ELSE IF ~IsDictionary(cfg.json)
    THEN [resp |-> ConfigResponse(500, TRUE, "ValueError", JNull,
                                  "Failed to load configuration"),
          cache |-> c,
          effects |-> [NoEffects EXCEPT !.cget = {AppConfigKey}, !.fread = {AppConfigPath}]]
    ELSE [resp |-> ConfigResponse(200, FALSE, "loaded", cfg.json, ""),
          cache |-> CacheSet(c, AppConfigKey, CDoc(cfg.json), APP_CONFIG_CACHE_TIMEOUT, t),
          effects |-> [NoEffects EXCEPT !.cget = {AppConfigKey}, !.fread = {AppConfigPath},
                                        !.cset = {AppConfigKey}]]

\* the whole handler at time t
AppConfigCall(c, cfg, t) ==
    IF CTruthy(CacheGet(c, AppConfigKey, t))
    THEN [resp |-> ConfigResponse(200, FALSE, "cache", CacheGet(c, AppConfigKey, t).doc, ""),
          cache |-> c,
          effects |-> [NoEffects EXCEPT !.cget = {AppConfigKey}]]
    ELSE LoadAppConfig(c, cfg, t)

(***************************************************************************)
(* summarize_logs and analyze_logs: the text is trimmed, refused when it   *)
(* is empty or a placeholder, cut when it is long, and sent to the chat    *)
(* completion service; api is the outcome of requests.post.  A message of  *)
(* the payload is its template and the values put into it.                 *)
(***************************************************************************)
TRUNCATE_AT == 8000

ERROR_BODY_PREFIX == 200

Placeholders == { <<"W", "a", "i", "t", "i", "n", "g", " ", "f", "o", "r", " ", "e", "x", "e", "c", "u", "t", "i", "o", "n", ".", ".", ".">>, <<"F", "e", "t", "c", "h", "i", "n", "g", " ", "p", "o", "d", " ", "l", "o", "g", "s", ".", ".", ".">> }

TruncationMarker == <<"\n">> \o <<".", ".", ".", " ", "(", "t", "r", "u", "n", "c", "a", "t", "e", "d", " ", "f", "o", "r", " ", "a", "n", "a", "l", "y", "s", "i", "s", ")">>

Message(kind, status, s) == [s |-> s, kind |-> kind, status |-> status]

\* JsonResponse({field: message})
AnalysisResponse(ep, field, message, stage) ==
    [pods |-> <<>>, logs |-> <<>>, ep |-> ep, status |-> 200, error |-> FALSE,
     success |-> FALSE, stage |-> stage, message |-> message, field |-> field]

\* a slip that would cut only texts longer than the limit and the marker together
NeedsTruncation_late(log_text) == Len(log_text) > TRUNCATE_AT + Len(TruncationMarker)

\* len(log_text) > 8000
NeedsTruncation(log_text) == Len(log_text) > TRUNCATE_AT

\* log_text[:8000] + "\n... (truncated for analysis)"
Truncate(log_text) ==
    IF NeedsTruncation(log_text)
    THEN SubSeq(log_text, 1, TRUNCATE_AT) \o TruncationMarker
    ELSE log_text

\* a slip that would test the placeholders before trimming
NoLogs_untrimmed(raw, log_text) == log_text = <<>> \/ raw \in Placeholders

\* not log_text or log_text in [placeholders], log_text being raw.strip()
NoLogs(raw, log_text) == log_text = <<>> \/ log_text \in Placeholders

\* a value of the decoded body, or the exception that reading it raised
Got(val) == [exc |-> "none", val |-> val]

Raised(exc) == [exc |-> exc, val |-> JNull]

\* d.get(key, default) on a value that may not be a dict
GetOn(d, key, default) ==
    IF d.exc # "none" THEN d
    ELSE IF d.val.kind # "dict" THEN Raised("AttributeError")
    ELSE Got(DictGet(d.val, key, default))

\* v[0]
First(v) ==
    IF v.exc # "none" THEN v
    ELSE IF v.val.kind = "list"
         THEN IF v.val.items = <<>> THEN Raised("IndexError") ELSE Got(v.val.items[1])
    ELSE IF v.val.kind = "str"
         THEN IF v.val.s = <<>> THEN Raised("IndexError") ELSE Got(JStr(<<v.val.s[1]>>))
    ELSE IF v.val.kind = "dict" THEN Raised("KeyError")
    ELSE Raised("TypeError")

\* result.get("choices", [{}])[0].get("message", {}).get("content", "")
GeneratedText(result) ==
    GetOn(GetOn(First(GetOn(Got(result), <<"c", "h", "o", "i", "c", "e", "s">>, JList(<< JDict(<<>>, <<>>) >>))),
                <<"m", "e", "s", "s", "a", "g", "e">>, JDict(<<>>, <<>>)),
          <<"c", "o", "n", "t", "e", "n", "t">>, JStr(<<>>))

\* truth value of a JSON value
JTruthy(v) ==
    \/ v.kind = "str" /\ v.s # <<>>
    \/ v.kind = "list" /\ v.items # <<>>
    \/ v.kind = "dict" /\ v.keys # <<>>

\* the except clauses: Timeout, RequestException, Exception
ExceptionMessage(exc) ==
    IF exc = "Timeout" THEN Message("timeout", 0, <<>>)
    ELSE IF exc \in {"ConnectionError", "RequestsJSONDecodeError"}
    THEN Message("network-error", 0, <<>>)
    ELSE Message("unexpected-error", 0, <<>>)

\* `if summary:` return summary.strip(), else the empty-response message
ContentMessage(content) ==
    IF content.exc # "none" THEN ExceptionMessage(content.exc)
    ELSE IF ~JTruthy(content.val) THEN Message("empty-response", 0, <<>>)
    ELSE IF content.val.kind # "str" THEN ExceptionMessage("AttributeError")
    ELSE Message("text", 0, Strip(content.val.s))

\* the message for an outcome of requests.post
OutcomeMessage(api) ==
    IF api.kind # "http" THEN ExceptionMessage(api.kind)
    ELSE IF api.status # 200
    THEN Message("api-error", api.status,
                 SubSeq(api.body, 1, Min(Len(api.body), ERROR_BODY_PREFIX)))
    ELSE IF api.decode # "none" THEN ExceptionMessage(api.decode)
    ELSE ContentMessage(GeneratedText(api.json))

\* a handler once the text is trimmed: the answer and what was dispatched
AnalysisAnswer(ep, field, raw, log_text, api) ==
    IF NoLogs(raw, log_text)
    THEN [resp |-> AnalysisResponse(ep, field, Message("no-logs", 0, <<>>), "no-logs"),
          effects |-> NoEffects]
    ELSE [resp |-> AnalysisResponse(ep, field, OutcomeMessage(api), "dispatched"),
          effects |-> [NoEffects EXCEPT !.http = <<Truncate(log_text)>>]]

summarize_logs(args, api) ==
    AnalysisAnswer("summarize_logs", "summary", PostGet(args, "log_text", <<>>),
                   Strip(PostGet(args, "log_text", <<>>)), api)

analyze_logs(args, api) ==
    AnalysisAnswer("analyze_logs", "analysis", PostGet(args, "log_text", <<>>),
                   Strip(PostGet(args, "log_text", <<>>)), api)

(***************************************************************************)
(* send_rca_email                                                          *)
(***************************************************************************)
\* '@' not in email or '.' not in email.split('@')[-1]
RECURSIVE AfterLastAt(_)
AfterLastAt(s) ==
    IF \E i \in 1..Len(s) : s[i] = "@"
    THEN AfterLastAt(SubSeq(s, (CHOOSE i \in 1..Len(s) : s[i] = "@") + 1, Len(s)))
    ELSE s

InvalidEmail(email) ==
    \/ ~Contains(email, <<"@">>)
    \/ ~Contains(AfterLastAt(email), <<".">>)

\* the whole handler; sent tells whether send_mail succeeds
SendRcaEmailCall(args, sent) ==
    LET email == Strip(PostGet(args, "email", <<>>))
        analysis == Strip(PostGet(args, "analysis", <<>>))
    IN  IF email = <<>> \/ analysis = <<>> \/ InvalidEmail(email)
        THEN [resp |-> Response("send_rca_email", 400, TRUE, <<>>, <<>>, FALSE, "invalid"),
              effects |-> NoEffects]
        ELSE [resp |-> Response("send_rca_email", IF sent THEN 200 ELSE 500, ~sent, <<>>,
                                <<>>, sent, "mail"),
              effects |-> [NoEffects EXCEPT !.mail = <<email>>]]

(***************************************************************************)
(* The inputs the model draws from.                                        *)
(***************************************************************************)
AppIn == { <<"s">> }

ClusterIn == { <<".", ".">>, <<" ">> }

BundleIn == { <<"t">> }

PodIn == { <<"/", "x", " ">> }

\* requests to get_pod_logs: every field present, or the pod field missing
PodLogsArgs ==
    [application : AppIn, cluster : ClusterIn, bundle : BundleIn, pod : PodIn]
    \cup [application : AppIn, cluster : {<<".", ".">>}, bundle : BundleIn]

\* requests to get_pods: every field present, or the bundle field missing
PodsArgs ==
    [application : AppIn, cluster : ClusterIn, bundle : BundleIn]
    \cup [application : AppIn, cluster : {<<".", ".">>}]

\* requests to track_download
TrackArgs ==
    { [filename |-> <<"f", ".", "l", "o", "g">>, app |-> <<"s">>, log_size |-> <<"7">>],
      [filename |-> <<"f">>, log_size |-> <<"7", "k">>],
      [filename |-> <<"f">>, cluster |-> <<"c">>, bundle |-> <<" ">>],
      [filename |-> <<" ">>, app |-> <<"s">>],
      [app |-> <<"s">>, pod |-> <<"p">>] }

\* requests to send_rca_email
EmailArgs ==
    { [email |-> <<"a", "@", "b", ".", "c">>, analysis |-> <<"r">>],
      [email |-> <<"a", "@", "b">>, analysis |-> <<"r">>],
      [email |-> <<"a", "@", "b", ".", "c">>, analysis |-> <<" ">>],
      [email |-> <<" ">>, analysis |-> <<"r">>],
      [analysis |-> <<"r">>],
      [email |-> <<"a", "@", "b", ".", "c">>] }

ClientIps == { <<"1", "0", ".", "0", ".", "0", ".", "1">> }

\* a second client, and the request that both send to be tracked
OtherIps == { <<"1", "0", ".", "0", ".", "0", ".", "2">> }

AllIps == ClientIps \cup OtherIps

DownloadArgs == { [filename |-> <<"f", ".", "l", "o", "g">>, app |-> <<"s">>, log_size |-> <<"7">>] }

\* the (application, cluster, bundle, pod) tuples that pass the validation
ValidTuples ==
    { tu \in { <<Strip(a.application), Strip(a.cluster), Strip(a.bundle), Strip(a.pod)>> :
                 a \in [application : AppIn, cluster : ClusterIn, bundle : BundleIn,
                        pod : PodIn] } : All(tu) }

\* the places where the operator puts, changes or removes log files
OperatorPaths ==
    { PathJoin(LogsBaseDir, <<"_", "x", ".", "l", "o", "g">>),
      PathJoin(LogsBaseDir, <<"p", "o", "d", "s", "/", "s", "-", "t", "-", "_", "x", ".", "l", "o", "g">>) }

OperatorFiles == { TextFile(<<>>), BadFile, TextFile(<<Blank>>), TextFile(RealText) }

\* the states of app/static/pods_config.json
ConfigDoc(bundle_value) ==
    JDict(<< <<"s">> >>, << JDict(<< <<".", ".">> >>, << JDict(<< <<"t">> >>, <<bundle_value>>) >>) >>)

PodsConfigStates ==
    { [st |-> "absent", json |-> JNull],
      [st |-> "invalid", json |-> JNull],
      [st |-> "undecodable", json |-> JNull],
      [st |-> "ok", json |-> JList(<<>>)],
      [st |-> "ok", json |-> JDict(<<>>, <<>>)],
      [st |-> "ok", json |-> JDict(<< <<"s">> >>, << JStr(<<"x">>) >>)],
      [st |-> "ok", json |-> JDict(<< <<"s">> >>, << JDict(<< <<".", ".">> >>, << JNull >>) >>)],
      [st |-> "ok", json |-> ConfigDoc(JStr(<<"x">>))],
      [st |-> "ok", json |-> ConfigDoc(JList(<<>>))],
      [st |-> "ok", json |-> ConfigDoc(JList(<< JStr(<<"p", "1">>), JStr(<<"p", "2">>) >>))] }

\* a text of n characters whose i-th character tells i modulo 10
LongText(n) == [i \in 1..n |-> DigitChars[(i % 10) + 1]]

\* requests to summarize_logs and analyze_logs: no text, blank text, the
\* placeholders, bare and padded, and texts around the truncation limit
LogTexts ==
    { <<>>, <<" ", " ">>, <<"W", "a", "i", "t", "i", "n", "g", " ", "f", "o", "r", " ", "e", "x", "e", "c", "u", "t", "i", "o", "n", ".", ".", ".">>, <<"F", "e", "t", "c", "h", "i", "n", "g", " ", "p", "o", "d", " ", "l", "o", "g", "s", ".", ".", ".">>,
      <<" ">> \o <<"F", "e", "t", "c", "h", "i", "n", "g", " ", "p", "o", "d", " ", "l", "o", "g", "s", ".", ".", ".">> \o <<" ">>,
      <<" ">> \o LongText(TRUNCATE_AT) \o <<" ">> }
    \cup { LongText(n) : n \in (TRUNCATE_AT - TextMargin)..(TRUNCATE_AT + TextMargin) }
    \cup { LongText(n) : n \in 1..TextMargin }

AnalysisArgs == [log_text : LogTexts] \cup { [none |-> <<>>] }

ApiOutcome(kind, status, body, decode, json) ==
    [kind |-> kind, status |-> status, json |-> json, body |-> body, decode |-> decode]

\* a decoded body with the generated text at choices[0].message.content
Completion(content) ==
    JDict(<< <<"c", "h", "o", "i", "c", "e", "s">> >>,
          << JList(<< JDict(<< <<"m", "e", "s", "s", "a", "g", "e">> >>,
                            << JDict(<< <<"c", "o", "n", "t", "e", "n", "t">> >>, << content >>) >>) >>) >>)

ResultDocs ==
    { Completion(JStr(<<"o", "k">>)), Completion(JStr(<<" ", "o", "k", " ">>)), Completion(JStr(<<>>)),
      Completion(JStr(<<" ">>)), Completion(JNull), Completion(JList(<< JStr(<<"o", "k">>) >>)),
      JDict(<<>>, <<>>),
      JDict(<< <<"c", "h", "o", "i", "c", "e", "s">> >>, << JList(<<>>) >>),
      JDict(<< <<"c", "h", "o", "i", "c", "e", "s">> >>, << JList(<< JDict(<<>>, <<>>) >>) >>),
      JDict(<< <<"c", "h", "o", "i", "c", "e", "s">> >>, << JNull >>),
      JDict(<< <<"c", "h", "o", "i", "c", "e", "s">> >>, << JList(<< JDict(<< <<"m", "e", "s", "s", "a", "g", "e">> >>, << JNull >>) >>) >>),
      JList(<<>>) }

\* the outcomes of requests.post and of reading its response
ApiOutcomes ==
    { ApiOutcome(k, 0, <<>>, "none", JNull) : k \in {"Timeout", "ConnectionError", "OtherError"} }
    \cup { ApiOutcome("http", 500, LongText(ERROR_BODY_PREFIX + TextMargin), "none", JNull),
           ApiOutcome("http", 429, LongText(TextMargin), "none", JNull) }
    \cup { ApiOutcome("http", 200, <<>>, d, JNull) : d \in {"RequestsJSONDecodeError", "ValueError"} }
    \cup { ApiOutcome("http", 200, <<>>, "none", doc) : doc \in ResultDocs }

NoApi == ApiOutcome("Timeout", 0, <<>>, "none", JNull)

\* the outcomes to draw from: one when the text is refused before the call
ApiChoices(args) ==
    IF summarize_logs(args, NoApi).effects.http = <<>> THEN {NoApi} ELSE ApiOutcomes

\* the states of app/static/app_config.json
AppConfigStates ==
    { [st |-> "absent", json |-> JNull],
      [st |-> "invalid", json |-> JNull],
      [st |-> "undecodable", json |-> JNull],
      [st |-> "ok", json |-> JNull],
      [st |-> "ok", json |-> JList(<< JStr(<<"s">>) >>)],
      [st |-> "ok", json |-> JStr(<<"s">>)],
      [st |-> "ok", json |-> JDict(<<>>, <<>>)],
      [st |-> "ok", json |-> JDict(<< <<"s">> >>, << JList(<< JStr(<<".", ".">>) >>) >>)] }

(***************************************************************************)
(* The state machine.  hist records, per tuple, how often the synthesis    *)
(* ran and whether its flat file was written since the operator last       *)
(* touched the log files.                                                  *)
(***************************************************************************)
EmptyMap == [k \in {} |-> 0]

NoCall == [stage |-> "none", source |-> <<>>, flat |-> FALSE]

HistInit ==
    [synthRuns |-> [tu \in ValidTuples |-> 0],
     persisted |-> [tu \in ValidTuples |-> FALSE],
     resynth |-> [tu \in ValidTuples |-> FALSE],
     prev |-> [tu \in ValidTuples |-> NoCall],
     last |-> [tu \in ValidTuples |-> NoCall],
     manual |-> 0,
     downloads |-> 0,
     events |-> [ip \in AllIps |-> <<>>]]

SysInit ==
    /\ cache = EmptyMap
    /\ files = EmptyMap
    /\ podsConfig = [st |-> "absent", json |-> JNull]
    /\ appConfig = [st |-> "absent", json |-> JNull]
    /\ now = 0
    /\ req = NoRequest
    /\ resp = NoResponse
    /\ effects = NoEffects
    /\ hist = HistInit
    /\ calls = [w \in Workers |-> IdleCall]

\* the result slot of the pure-function specifications, before the call
PureIdle == [done |-> FALSE, val |-> <<>>]

Init ==
    /\ SysInit
    /\ pin = <<>>
    /\ pout = PureIdle

\* the tuple of a request that passed the validation
TupleOf(args) ==
    <<Strip(args.application), Strip(args.cluster), Strip(args.bundle), Strip(args.pod)>>


\* the source named in the banner of a returned text
BannerSource(logs) ==
    IF logs # <<>> /\ logs[1].k = "banner" THEN logs[1].args[1] ELSE <<>>

\* the record of one answered get_pod_logs request: how often the synthesis
\* ran, whether it ran again after its flat file had been written, and the
\* last two answers
HistAfterLogs(h, fs, args, r, wr) ==
    IF r.resp.status # 200 THEN h
    ELSE
      LET tu == TupleOf(args)
          synth == r.resp.stage = "auto-generated"
          flat == synth /\ FlatPath(sanitize_filename(tu[1]), sanitize_filename(tu[3]),
                                    sanitize_filename(tu[4])) \in r.effects.fwrite
      IN  [h EXCEPT !.synthRuns[tu] = IF synth THEN Min(2, @ + 1) ELSE @,
                    !.resynth[tu] = @ \/ (synth /\ h.persisted[tu]),
                    !.persisted[tu] = @ \/ flat,
                    !.prev[tu] = h.last[tu],
                    !.last[tu] = [stage |-> r.resp.stage,
                                  source |-> BannerSource(r.resp.logs),
                                  flat |-> flat]]

NoKubectl == [kind |-> "notfound", stdout |-> <<>>]

\* the kubectl outcomes to draw from: one when the run does not reach Stage 2
LiveChoices(args) ==
    IF PodLogsCall(cache, files, now, args, NoKubectl, "ok").effects.kubectl # <<>>
    THEN KubectlOutcomes ELSE {NoKubectl}

\* the write outcomes to draw from: one when the run does not reach Stage 4
WriteChoices(args, ko) ==
    IF PodLogsCall(cache, files, now, args, ko, "ok").resp.stage = "auto-generated"
    THEN WriteOutcomes ELSE {"ok"}

GetPodLogs(args, ko, wr) ==
    \E r \in {PodLogsCall(cache, files, now, args, ko, wr)} :
        /\ req' = [ep |-> "get_pod_logs", args |-> args]
        /\ resp' = r.resp
        /\ cache' = r.cache
        /\ files' = r.files
        /\ effects' = r.effects
        /\ hist' = HistAfterLogs(hist, files, args, r, wr)
        /\ UNCHANGED <<podsConfig, appConfig, now, calls, pin, pout>>

GetPods(args) ==
    \E r \in {PodsCall(cache, podsConfig, now, args)} :
        /\ req' = [ep |-> "get_pods", args |-> args]
        /\ resp' = r.resp
        /\ cache' = r.cache
        /\ effects' = r.effects
        /\ UNCHANGED <<files, podsConfig, appConfig, now, hist, calls, pin, pout>>

\* the tracked requests of each client, in arrival order
HistAfterTrack(h, args, client_ip, t, r) ==
    IF r.resp.status # 200 THEN h
    ELSE [h EXCEPT !.downloads = @ + 1,
                   !.events[client_ip] = Append(@, [args |-> args, t |-> t, ip |-> client_ip])]

TrackDownload(args, client_ip) ==
    \E r \in {TrackDownloadCall(cache, now, args, client_ip)} :
        /\ hist.downloads < MaxDownloads
        /\ req' = [ep |-> "track_download", args |-> args]
        /\ resp' = r.resp
        /\ cache' = r.cache
        /\ effects' = r.effects
        /\ hist' = HistAfterTrack(hist, args, client_ip, now, r)
        /\ UNCHANGED <<files, podsConfig, appConfig, now, calls, pin, pout>>

\* how many requests of a client are followed: enough to pass the cap for
\* the first client, a few for the others
Quota(client_ip) == IF client_ip \in ClientIps THEN MaxTracked ELSE MaxOther

\* track_download for a client that keeps downloading
TrackRecent(args, client_ip) ==
    \E r \in {TrackDownloadCall(cache, now, args, client_ip)} :
        /\ Len(hist.events[client_ip]) < Quota(client_ip)
        /\ req' = [ep |-> "track_download", args |-> args]
        /\ resp' = r.resp
        /\ cache' = r.cache
        /\ effects' = r.effects
        /\ hist' = HistAfterTrack(hist, args, client_ip, now, r)
        /\ UNCHANGED <<files, podsConfig, appConfig, now, calls, pin, pout>>

\* a request arrives at an idle worker: it is validated and the list is read
TrackBegin(w, args, client_ip) ==
    /\ calls[w].pc = "idle"
    /\ hist.downloads + Cardinality({v \in Workers : calls[v].pc # "idle"}) < MaxCalls
    /\ req' = [ep |-> "track_download", args |-> args]
    /\ IF Strip(PostGet(args, "filename", <<>>)) = <<>>
       THEN /\ resp' = Response("track_download", 400, TRUE, <<>>, <<>>, FALSE, "invalid")
            /\ effects' = NoEffects
            /\ calls' = calls
       ELSE /\ resp' = resp
            /\ effects' = [NoEffects EXCEPT !.cget = {RecentDownloadsKey(client_ip)}]
            /\ calls' = [calls EXCEPT ![w] = ReadRecent(cache, now, args, client_ip)]
    /\ UNCHANGED <<cache, files, podsConfig, appConfig, now, hist, pin, pout>>

TrackRecentSet(w) ==
    /\ calls[w].pc = "recent_set"
    /\ cache' = WriteRecent(cache, now, calls[w])
    /\ calls' = [calls EXCEPT ![w].pc = "total_get"]
    /\ effects' = [NoEffects EXCEPT !.cset = {RecentDownloadsKey(calls[w].ip)}]
    /\ UNCHANGED <<files, podsConfig, appConfig, now, req, resp, hist, pin, pout>>

TrackTotalGet(w) ==
    /\ calls[w].pc = "total_get"
    /\ calls' = [calls EXCEPT ![w].pc = "total_set",
                              ![w].n = ReadCounter(cache, now, TotalDownloadsKey)]
    /\ effects' = [NoEffects EXCEPT !.cget = {TotalDownloadsKey}]
    /\ UNCHANGED <<cache, files, podsConfig, appConfig, now, req, resp, hist, pin, pout>>

TrackTotalSet(w) ==
    /\ calls[w].pc = "total_set"
    /\ cache' = WriteCounter(cache, now, TotalDownloadsKey, calls[w].n)
    /\ calls' = [calls EXCEPT ![w].pc = "daily_get"]
    /\ effects' = [NoEffects EXCEPT !.cset = {TotalDownloadsKey}]
    /\ UNCHANGED <<files, podsConfig, appConfig, now, req, resp, hist, pin, pout>>

TrackDailyGet(w) ==
    /\ calls[w].pc = "daily_get"
    /\ calls' = [calls EXCEPT ![w].pc = "daily_set",
                              ![w].n = ReadCounter(cache, now, DailyCounterKey(now))]
    /\ effects' = [NoEffects EXCEPT !.cget = {DailyCounterKey(now)}]
    /\ UNCHANGED <<cache, files, podsConfig, appConfig, now, req, resp, hist, pin, pout>>

\* the last write; the request is answered
TrackDailySet(w) ==
    /\ calls[w].pc = "daily_set"
    /\ cache' = WriteCounter(cache, now, DailyCounterKey(now), calls[w].n)
    /\ calls' = [calls EXCEPT ![w] = IdleCall]
    /\ effects' = [NoEffects EXCEPT !.cset = {DailyCounterKey(now)}]
    /\ req' = [ep |-> "track_download", args |-> calls[w].args]
    /\ resp' = Response("track_download", 200, FALSE, <<>>, <<>>, TRUE, "tracked")
    /\ hist' = [hist EXCEPT !.downloads = @ + 1,
                            !.events[calls[w].ip] =
                                Append(@, [args |-> calls[w].args, t |-> calls[w].t, ip |-> calls[w].ip])]
    /\ UNCHANGED <<files, podsConfig, appConfig, now, pin, pout>>

\* half the retention of a recent-downloads list passes
Pause ==
    /\ now + PauseStep <= MaxPauses * PauseStep
    /\ now' = now + PauseStep
    /\ cache' = Unexpired(cache, now')
    /\ UNCHANGED <<files, podsConfig, appConfig, req, resp, effects, hist, calls, pin, pout>>

SendRcaEmail(args, sent) ==
    \E r \in {SendRcaEmailCall(args, sent)} :
        /\ req' = [ep |-> "send_rca_email", args |-> args]
        /\ resp' = r.resp
        /\ effects' = r.effects
        /\ UNCHANGED <<cache, files, podsConfig, appConfig, now, hist, calls, pin, pout>>

\* time passes; the cache drops what has expired
Tick ==
    /\ now + TickStep <= MaxTime
    /\ now' = now + TickStep
    /\ cache' = Unexpired(cache, now')
    /\ UNCHANGED <<files, podsConfig, appConfig, req, resp, effects, hist, calls, pin, pout>>

\* the operator's changes start a new history for every tuple
HistAfterManual(h) ==
    [HistInit EXCEPT !.manual = h.manual + 1, !.downloads = h.downloads,
                     !.events = h.events]

OperatorPut(path, f) ==
    /\ hist.manual < MaxManual
    /\ files' = [q \in DOMAIN files \cup {path} |-> IF q = path THEN f ELSE files[q]]
    /\ hist' = HistAfterManual(hist)
    /\ UNCHANGED <<cache, podsConfig, appConfig, now, req, resp, effects, calls, pin, pout>>

OperatorRemove(path) ==
    /\ hist.manual < MaxManual
    /\ path \in DOMAIN files
    /\ files' = [q \in DOMAIN files \ {path} |-> files[q]]
    /\ hist' = HistAfterManual(hist)
    /\ UNCHANGED <<cache, podsConfig, appConfig, now, req, resp, effects, calls, pin, pout>>

SetPodsConfig(cfg) ==
    /\ podsConfig # cfg
    /\ podsConfig' = cfg
    /\ UNCHANGED <<cache, files, appConfig, now, req, resp, effects, hist, calls, pin, pout>>

\* the log resolver with its environment: time and the operator's files
NextLogs ==
    \/ \E args \in PodLogsArgs : \E ko \in LiveChoices(args) :
          \E wr \in WriteChoices(args, ko) : GetPodLogs(args, ko, wr)
    \/ Tick
    \/ \E path \in OperatorPaths, f \in OperatorFiles : OperatorPut(path, f)
    \/ \E path \in DOMAIN files : OperatorRemove(path)

SpecLogs == Init /\ [][NextLogs]_vars

\* log files the operator curated before the service started: two patterns in
\* the log root and one file in the directory of the application's cluster
RootPodLog == PathJoin(LogsBaseDir, <<"_", "x", ".", "l", "o", "g">>)

RootAppPodLog == PathJoin(LogsBaseDir, <<"s", "-", "_", "x", ".", "l", "o", "g">>)

AppClusterPodLog == PathJoin(LogsBaseDir, <<"s", "/", "_", "_", "/", "_", "x", ".", "l", "o", "g">>)

CuratedPaths == {RootPodLog, RootAppPodLog, AppClusterPodLog}

CuratedChoices(p) ==
    IF p = RootPodLog THEN OperatorFiles
    ELSE IF p = RootAppPodLog THEN {BadFile, TextFile(RealText)}
    ELSE {TextFile(RealText)}

\* the filesystems the service may start with
CuratedFilesystems ==
    UNION { { fs \in [present -> OperatorFiles] : \A p \in present : fs[p] \in CuratedChoices(p) } : present \in SUBSET CuratedPaths }

InitCurated ==
    /\ cache = EmptyMap
    /\ files \in CuratedFilesystems
    /\ podsConfig = [st |-> "absent", json |-> JNull]
    /\ appConfig = [st |-> "absent", json |-> JNull]
    /\ now = 0
    /\ req = NoRequest
    /\ resp = NoResponse
    /\ effects = NoEffects
    /\ hist = HistInit
    /\ calls = [w \in Workers |-> IdleCall]
    /\ pin = <<>>
    /\ pout = PureIdle

\* the operator adds a real log file
AddedPaths == { PathJoin(LogsBaseDir, <<"p", "o", "d", "s", "/", "_", "x", ".", "l", "o", "g">>) }

\* the log resolver over curated files
NextCurated ==
    \/ \E args \in PodLogsArgs : \E ko \in LiveChoices(args) :
          \E wr \in WriteChoices(args, ko) : GetPodLogs(args, ko, wr)
    \/ Tick
    \/ \E path \in AddedPaths : OperatorPut(path, TextFile(RealText))

SpecCurated == InitCurated /\ [][NextCurated]_vars

\* half the lifetime of a cached pod list passes
PodsStep == PODS_CACHE_TIMEOUT \div 2

PodsWait ==
    /\ now + PodsStep <= MaxWaits * PodsStep
    /\ now' = now + PodsStep
    /\ cache' = Unexpired(cache, now')
    /\ UNCHANGED <<files, podsConfig, appConfig, req, resp, effects, hist, calls, pin, pout>>

\* the pod lister over the lifetime of its cache entries
NextPodsCache ==
    \/ \E args \in PodsArgs : GetPods(args)
    \/ PodsWait
    \/ \E cfg \in PodsConfigStates : SetPodsConfig(cfg)

SpecPodsCache == Init /\ [][NextPodsCache]_vars

\* the pod lister with its environment: time and the configuration document
NextPods ==
    \/ \E args \in PodsArgs : GetPods(args)
    \/ Tick
    \/ \E cfg \in PodsConfigStates : SetPodsConfig(cfg)

SpecPods == Init /\ [][NextPods]_vars

GetAppConfig ==
    \E r \in {AppConfigCall(cache, appConfig, now)} :
        /\ req' = [ep |-> "get_app_config", args |-> [none |-> <<>>]]
        /\ resp' = r.resp
        /\ cache' = r.cache
        /\ effects' = r.effects
        /\ UNCHANGED <<files, podsConfig, appConfig, now, hist, calls, pin, pout>>

SetAppConfig(cfg) ==
    /\ appConfig # cfg
    /\ appConfig' = cfg
    /\ UNCHANGED <<cache, files, podsConfig, now, req, resp, effects, hist, calls, pin, pout>>

\* the configuration server with its environment: time and the document
NextConfig ==
    \/ GetAppConfig
    \/ Tick
    \/ \E cfg \in AppConfigStates : SetAppConfig(cfg)

SpecConfig == Init /\ [][NextConfig]_vars

SummarizeLogs(args, api) ==
    \E r \in {summarize_logs(args, api)} :
        /\ req' = [ep |-> "summarize_logs", args |-> args, api |-> api]
        /\ resp' = r.resp
        /\ effects' = r.effects
        /\ UNCHANGED <<cache, files, podsConfig, appConfig, now, hist, calls, pin, pout>>

AnalyzeLogs(args, api) ==
    \E r \in {analyze_logs(args, api)} :
        /\ req' = [ep |-> "analyze_logs", args |-> args, api |-> api]
        /\ resp' = r.resp
        /\ effects' = r.effects
        /\ UNCHANGED <<cache, files, podsConfig, appConfig, now, hist, calls, pin, pout>>

\* the two text-analysis endpoints with the outcomes of the external call
NextAnalysis ==
    \/ \E args \in AnalysisArgs : \E api \in ApiChoices(args) : SummarizeLogs(args, api)
    \/ \E args \in AnalysisArgs : \E api \in ApiChoices(args) : AnalyzeLogs(args, api)

SpecAnalysis == Init /\ [][NextAnalysis]_vars

\* the download tracker with two clients and the passing of time
NextDownloads ==
    \/ \E args \in DownloadArgs, ip \in AllIps : TrackRecent(args, ip)
    \/ Pause

SpecDownloads == Init /\ [][NextDownloads]_vars

\* requests to track_download served at the same time
NextCounters ==
    \/ \E w \in Workers, args \in TrackArgs, ip \in ClientIps : TrackBegin(w, args, ip)
    \/ \E w \in Workers : TrackRecentSet(w)
    \/ \E w \in Workers : TrackTotalGet(w)
    \/ \E w \in Workers : TrackTotalSet(w)
    \/ \E w \in Workers : TrackDailyGet(w)
    \/ \E w \in Workers : TrackDailySet(w)

SpecCounters == Init /\ [][NextCounters]_vars

(***************************************************************************)
(* get_pod_logs served by several workers at once for one tuple: each      *)
(* worker runs the handler step by step, and the steps of the workers      *)
(* interleave at every access to the cache and to the files.               *)
(***************************************************************************)
RaceArgs == [application |-> <<"s">>, cluster |-> <<".", ".">>, bundle |-> <<"t">>, pod |-> <<"/", "x", " ">>]

RaceKey ==
    LogsCacheKey(sanitize_filename(Strip(RaceArgs.application)),
                 sanitize_filename(Strip(RaceArgs.cluster)),
                 sanitize_filename(Strip(RaceArgs.bundle)),
                 sanitize_filename(Strip(RaceArgs.pod)))

RaceFlat ==
    FlatPath(sanitize_filename(Strip(RaceArgs.application)),
             sanitize_filename(Strip(RaceArgs.bundle)),
             sanitize_filename(Strip(RaceArgs.pod)))

RaceHier ==
    HierarchicalPath(sanitize_filename(Strip(RaceArgs.application)),
                     sanitize_filename(Strip(RaceArgs.cluster)),
                     sanitize_filename(Strip(RaceArgs.bundle)),
                     sanitize_filename(Strip(RaceArgs.pod)))

\* the workers that serve the tuple at the same time
RaceWorkers == 1..(MaxWorkers + 1)

\* a worker between requests: the handler's local variables and its position
IdleLogs ==
    [logs |-> <<>>, log_content |-> TNone, found_log_file |-> NoneStr, stage |-> "none",
     pc |-> "idle", from |-> 1]

\* the candidates from place k on that exist and have a size (lines 267-273)
Sized(fs, cands, k) ==
    { i \in k..Len(cands) : cands[i] \in DOMAIN fs /\ ~SizeZero(fs[cands[i]]) }

\* the directory of the i-th candidate in the list of directories
DirIndex(cands, i) == ((i - 1) \div (Len(cands) \div 9)) + 1

\* lines 191-216: the fields are read and the cache is asked; the workers
\* are alike, so the requests are handed to them in the order of their
\* numbers
RaceBegin(w) ==
    /\ calls[w].pc = "idle"
    /\ \A v \in RaceWorkers : v < w => calls[v].pc # "idle"
    /\ \E cached_logs \in {CacheGet(cache, RaceKey, now)} :
          IF CTruthy(cached_logs)
          THEN /\ calls' = [calls EXCEPT ![w].pc = "done", ![w].logs = cached_logs.logs,
                                          ![w].stage = "cache"]
               /\ req' = [ep |-> "get_pod_logs", args |-> RaceArgs]
               /\ resp' = Response("get_pod_logs", 200, FALSE, cached_logs.logs, <<>>, FALSE,
                                    "cache")
          ELSE /\ calls' = [calls EXCEPT ![w].pc = "scan"]
               /\ req' = req
               /\ resp' = resp
    /\ UNCHANGED <<cache, files, podsConfig, appConfig, now, effects, hist, pin, pout>>

\* lines 260-273 and 290-291: the loops run on to the next candidate that
\* exists with a size, or to their end
RaceScan(w, cands) ==
    /\ calls[w].pc = "scan"
    /\ \E sized \in {Sized(files, cands, calls[w].from)} :
          IF /\ Truthy(calls[w].log_content)
             /\ \A i \in sized : DirIndex(cands, i) > DirIndex(cands, calls[w].from - 1)
          THEN calls' = [calls EXCEPT ![w].pc = "finalize", ![w].stage = "file"]
          ELSE IF sized = {}
          THEN calls' = [calls EXCEPT ![w].pc = "live"]
          ELSE calls' = [calls EXCEPT ![w].pc = "read",
                                      ![w].from = CHOOSE i \in sized : \A j \in sized : i <= j]
    /\ UNCHANGED <<cache, files, podsConfig, appConfig, now, req, resp, effects, hist, pin, pout>>

\* lines 275-281: the file is opened and read as it is now
RaceRead(w, cands) ==
    /\ calls[w].pc = "read"
    /\ \E f \in {files[cands[calls[w].from]]} :
          IF f.enc # "utf8"
          THEN calls' = [calls EXCEPT ![w].pc = "scan", ![w].from = @ + 1]
          ELSE IF StripText(f.text) # <<>>
          THEN calls' = [calls EXCEPT ![w].pc = "finalize", ![w].log_content = f.text,
                                      ![w].found_log_file = cands[calls[w].from],
                                      ![w].stage = "file"]
          ELSE calls' = [calls EXCEPT ![w].pc = "scan", ![w].log_content = f.text,
                                      ![w].from = @ + 1]
    /\ UNCHANGED <<cache, files, podsConfig, appConfig, now, req, resp, effects, hist, pin, pout>>

\* lines 294-297: the live fetch
RaceLive(w, ko) ==
    /\ calls[w].pc = "live"
    /\ \E fetched \in {fetch_kubernetes_logs(sanitize_filename(Strip(RaceArgs.application)),
                                              sanitize_filename(Strip(RaceArgs.cluster)),
                                              sanitize_filename(Strip(RaceArgs.bundle)),
                                              sanitize_filename(Strip(RaceArgs.pod)), ko)} :
          IF Truthy(fetched)
          THEN calls' = [calls EXCEPT ![w].pc = "finalize", ![w].log_content = fetched,
                                      ![w].found_log_file = KubernetesApi,
                                      ![w].stage = "kubernetes-api"]
          ELSE calls' = [calls EXCEPT ![w].pc = "synth", ![w].log_content = fetched]
    /\ UNCHANGED <<cache, files, podsConfig, appConfig, now, req, resp, effects, hist, pin, pout>>

\* lines 300-304: the synthesis
RaceSynth(w) ==
    /\ calls[w].pc = "synth"
    /\ calls' = [calls EXCEPT ![w].pc = "open_flat",
                              ![w].log_content =
                                  auto_generate_pod_logs(Strip(RaceArgs.application),
                                                         Strip(RaceArgs.cluster),
                                                         Strip(RaceArgs.bundle),
                                                         Strip(RaceArgs.pod), now),
                              ![w].found_log_file = AutoGenerated,
                              ![w].stage = "auto-generated"]
    /\ UNCHANGED <<cache, files, podsConfig, appConfig, now, req, resp, effects, hist, pin, pout>>

\* lines 1013-1019 and 1023-1027: open(path, 'w') empties the file; a
\* failure ends auto_save_generated_logs
RaceOpen(w, at, path, then, ok) ==
    /\ calls[w].pc = at
    /\ IF ok
       THEN /\ files' = WriteFile(files, path, <<>>)
            /\ calls' = [calls EXCEPT ![w].pc = then]
       ELSE /\ files' = files
            /\ calls' = [calls EXCEPT ![w].pc = "finalize"]
    /\ UNCHANGED <<cache, podsConfig, appConfig, now, req, resp, effects, hist, pin, pout>>

\* lines 1020 and 1028: the text is written from the start of the file, and
\* the file is closed
RaceWrite(w, at, path, then) ==
    /\ calls[w].pc = at
    /\ files' = WriteFile(files, path, calls[w].log_content)
    /\ calls' = [calls EXCEPT ![w].pc = then]
    /\ UNCHANGED <<cache, podsConfig, appConfig, now, req, resp, effects, hist, pin, pout>>

\* lines 313-330: the banner, the cache entry and the answer
RaceFinalize(w) ==
    /\ calls[w].pc = "finalize"
    /\ \E final \in {Finalize(now, calls[w].found_log_file, Strip(RaceArgs.pod),
                               Strip(RaceArgs.application), Strip(RaceArgs.cluster),
                               Strip(RaceArgs.bundle), calls[w].log_content)} :
          /\ cache' = CacheSet(cache, RaceKey, CLogs(final), LOGS_CACHE_TIMEOUT, now)
          /\ calls' = [calls EXCEPT ![w].pc = "done", ![w].logs = final]
          /\ resp' = Response("get_pod_logs", 200, FALSE, final, <<>>, FALSE, calls[w].stage)
    /\ req' = [ep |-> "get_pod_logs", args |-> RaceArgs]
    /\ UNCHANGED <<files, podsConfig, appConfig, now, effects, hist, pin, pout>>

\* time passes while the requests are served
RaceTick ==
    /\ now + TickStep <= MaxRaceTicks * TickStep
    /\ now' = now + TickStep
    /\ cache' = Unexpired(cache, now')
    /\ UNCHANGED <<files, podsConfig, appConfig, req, resp, effects, hist, calls, pin, pout>>

InitRace ==
    /\ cache = EmptyMap
    /\ files = EmptyMap
    /\ podsConfig = [st |-> "absent", json |-> JNull]
    /\ appConfig = [st |-> "absent", json |-> JNull]
    /\ now = 0
    /\ req = NoRequest
    /\ resp = NoResponse
    /\ effects = NoEffects
    /\ hist = HistInit
    /\ calls = [w \in RaceWorkers |-> IdleLogs]
    /\ pin = <<>>
    /\ pout = PureIdle

NextRace ==
    \/ \E w \in RaceWorkers : RaceBegin(w)
    \/ \E w \in RaceWorkers : RaceScan(w, CandidatesOf(RaceArgs, now))
    \/ \E w \in RaceWorkers : RaceRead(w, CandidatesOf(RaceArgs, now))
    \/ \E w \in RaceWorkers, ko \in KubectlOutcomes : RaceLive(w, ko)
    \/ \E w \in RaceWorkers : RaceSynth(w)
    \/ \E w \in RaceWorkers, ok \in BOOLEAN : RaceOpen(w, "open_flat", RaceFlat, "write_flat", ok)
    \/ \E w \in RaceWorkers : RaceWrite(w, "write_flat", RaceFlat, "open_hier")
    \/ \E w \in RaceWorkers, ok \in BOOLEAN : RaceOpen(w, "open_hier", RaceHier, "write_hier", ok)
    \/ \E w \in RaceWorkers : RaceWrite(w, "write_hier", RaceHier, "finalize")
    \/ \E w \in RaceWorkers : RaceFinalize(w)
    \/ RaceTick

SpecRace == InitRace /\ [][NextRace]_vars

\* requests whose identifiers differ and sanitize alike ('/x' and '_x'),
\* whose identifiers differ and join alike ('t' + '_x' and 't_' + 'x'), and
\* one request that shares nothing with the others
NeighbourArgs ==
    { [application |-> <<"s">>, cluster |-> <<".", ".">>, bundle |-> <<"t">>, pod |-> <<"/", "x", " ">>],
      [application |-> <<"s">>, cluster |-> <<".", ".">>, bundle |-> <<"t">>, pod |-> <<"_", "x">>],
      [application |-> <<"s">>, cluster |-> <<".", ".">>, bundle |-> <<"t", "_">>, pod |-> <<"x">>],
      [application |-> <<"s">>, cluster |-> <<".", ".">>, bundle |-> <<"t">>, pod |-> <<"y">>] }

\* get_pod_logs for one of these requests
NeighbourGetPodLogs(args, ko, wr) ==
    \E r \in {PodLogsCall(cache, files, now, args, ko, wr)} :
        /\ req' = [ep |-> "get_pod_logs", args |-> args]
        /\ resp' = r.resp
        /\ cache' = r.cache
        /\ files' = r.files
        /\ effects' = r.effects
        /\ UNCHANGED <<podsConfig, appConfig, now, hist, calls, pin, pout>>

InitNeighbours ==
    /\ cache = EmptyMap
    /\ files = EmptyMap
    /\ podsConfig = [st |-> "absent", json |-> JNull]
    /\ appConfig = [st |-> "absent", json |-> JNull]
    /\ now = 0
    /\ req = NoRequest
    /\ resp = NoResponse
    /\ effects = NoEffects
    /\ hist = HistInit
    /\ calls = [w \in Workers |-> IdleCall]
    /\ pin = <<>>
    /\ pout = PureIdle

\* the log resolver asked for neighbouring tuples
\* kubectl is missing, or it prints a log
NeighbourKubectl ==
    { [kind |-> "notfound", stdout |-> <<>>],
      [kind |-> "ok", stdout |-> << Line(0, "INFO", "kubectl log", <<>>) >>] }

NextNeighbours ==
    \/ \E args \in NeighbourArgs : \E ko \in LiveChoices(args) \cap NeighbourKubectl :
          \E wr \in WriteChoices(args, ko) \cap {"ok", "flat_fails"} : NeighbourGetPodLogs(args, ko, wr)
    \/ Tick

SpecNeighbours == InitNeighbours /\ [][NextNeighbours]_vars

\* every endpoint that validates required fields, over one shared cache
Next ==
    \/ \E args \in PodLogsArgs : \E ko \in LiveChoices(args) :
          \E wr \in WriteChoices(args, ko) : GetPodLogs(args, ko, wr)
    \/ \E args \in PodsArgs : GetPods(args)
    \/ \E args \in TrackArgs, ip \in ClientIps : TrackDownload(args, ip)
    \/ \E args \in EmailArgs, sent \in BOOLEAN : SendRcaEmail(args, sent)

Spec == Init /\ [][Next]_vars

(***************************************************************************)
(* Specifications of the pure functions: the input is drawn by the initial *)
(* state, the one action applies the function.                             *)
(***************************************************************************)
Alphabet == {"a", "Z", "7", "_", "-", ".", "/", " "}

StringsUpTo(chars, n) == UNION { [1..k -> chars] : k \in 0..n }

SanitizeInputs == StringsUpTo(Alphabet, MaxLen) \cup {None}

InitSanitize ==
    /\ SysInit
    /\ pin \in SanitizeInputs
    /\ pout = PureIdle

SanitizeStep ==
    /\ ~pout.done
    /\ pout' = [done |-> TRUE, val |-> sanitize_filename(pin)]
    /\ UNCHANGED <<sysvars, pin>>

SpecSanitize == InitSanitize /\ [][SanitizeStep]_vars

SampleIds ==
    StringsUpTo({"a", "_", "-", "/"}, MaxIdLen)
    \cup { <<"e", "r", "r", "o", "r", "-", "p", "o", "d">>,
           <<"x", "_", "e", "r", "r", "o", "r", "_", "p", "o", "d">>,
           <<"x", "-", "w", "a", "r", "n", "-", "s", "e", "r", "v", "i", "c", "e">>,
           <<"w", "e", "b", "-", "e", "r", "r", "o", "r">>,
           <<"s", "h", "o", "p">> }

InitSamples ==
    /\ SysInit
    /\ pin \in SampleIds \X SampleIds
    /\ pout = PureIdle

SamplesStep ==
    /\ ~pout.done
    /\ pout' = [done |-> TRUE, val |-> generate_sample_pods(pin[1], pin[2])]
    /\ UNCHANGED <<sysvars, pin>>

SpecSamples == InitSamples /\ [][SamplesStep]_vars

\* names for the synthesis: the words in both letter cases, alone and inside
\* longer names
SynthPods ==
    { <<"s", "v", "c", "-", "e", "r", "r", "o", "r", "-", "p", "o", "d">>,
      <<"s", "v", "c", "-", "w", "a", "r", "n", "-", "s", "e", "r", "v", "i", "c", "e">>,
      <<"w", "a", "r", "n", "-", "e", "r", "r", "o", "r">>,
      <<"E", "R", "R", "O", "R", "-", "1">>,
      <<"W", "a", "r", "n", "-", "j", "o", "b">>,
      <<"w", "e", "b", "-", "1">>,
      <<"F", "A", "T", "A", "L">>,
      <<"x">> }

SynthNames == { <<"s">>, <<"E", "R", "R", "O", "R">> }

InitSynth ==
    /\ SysInit
    /\ pin \in SynthNames \X SynthNames \X SynthNames \X SynthPods
    /\ pout = PureIdle

SynthStep ==
    /\ ~pout.done
    /\ pout' = [done |-> TRUE, val |-> auto_generate_pod_logs(pin[1], pin[2], pin[3], pin[4], now)]
    /\ UNCHANGED <<sysvars, pin>>

SpecSynth == InitSynth /\ [][SynthStep]_vars

(***************************************************************************)
(* Properties.                                                             *)
(***************************************************************************)

\* the character class [A-Za-z0-9_-], written out
IdentifierChars ==
    { "a", "b", "c", "d", "e", "f", "g", "h", "i", "j", "k", "l", "m", "n", "o", "p",
      "q", "r", "s", "t", "u", "v", "w", "x", "y", "z", "A", "B", "C", "D", "E", "F",
      "G", "H", "I", "J", "K", "L", "M", "N", "O", "P", "Q", "R", "S", "T", "U", "V",
      "W", "X", "Y", "Z", "0", "1", "2", "3", "4", "5", "6", "7", "8", "9", "_", "-" }

UnknownToken == <<"u", "n", "k", "n", "o", "w", "n">>

Underscores(n) == [i \in 1..n |-> "_"]

AllInvalid(s) == s # None /\ s # <<>> /\ \A i \in 1..Len(s) : s[i] \notin IdentifierChars

\* C5: for every input, sanitize_filename's result is non-empty and made of
\* characters of [A-Za-z0-9_-] only; a non-empty input keeps its length, every
\* character outside the class replaced by '_' and every other character
\* kept; an empty or null input gives 'unknown'.
C5_SanitizeOutput ==
    pout.done =>
        /\ pout.val # <<>>
        /\ \A i \in 1..Len(pout.val) : pout.val[i] \in IdentifierChars
        /\ IF pin = None \/ pin = <<>>
           THEN pout.val = UnknownToken
           ELSE /\ Len(pout.val) = Len(pin)
                /\ \A i \in 1..Len(pin) :
                      pout.val[i] = IF pin[i] \in IdentifierChars THEN pin[i] ELSE "_"

\* a mixed input has been sanitized
C5_Witness ==
    pout.done /\ pin = <<"a", "/", "7">> /\ pout.val = <<"a", "_", "7">>

EndsWith(s, suffix) ==
    /\ Len(s) >= Len(suffix)
    /\ SubSeq(s, Len(s) - Len(suffix) + 1, Len(s)) = suffix

PodName(p) == DictGet(p, <<"n", "a", "m", "e">>, JNull).s

PodDisplayName(p) == DictGet(p, <<"d", "i", "s", "p", "l", "a", "y", "_", "n", "a", "m", "e">>, JNull).s

\* C9: sample generation gives exactly 6 entries for every (app, bundle): the
\* names end in -web-001, -web-002, -api-001, -worker-001, -error-pod and
\* -warn-service, in this order; the display name of the error-pod entry
\* contains '(Error Demo)' and that of the warn-service entry contains
\* '(Warning Demo)'.
C9_SixSamplePods ==
    pout.done =>
        /\ Len(pout.val) = 6
        /\ EndsWith(PodName(pout.val[1]), <<"-", "w", "e", "b", "-", "0", "0", "1">>)
        /\ EndsWith(PodName(pout.val[2]), <<"-", "w", "e", "b", "-", "0", "0", "2">>)
        /\ EndsWith(PodName(pout.val[3]), <<"-", "a", "p", "i", "-", "0", "0", "1">>)
        /\ EndsWith(PodName(pout.val[4]), <<"-", "w", "o", "r", "k", "e", "r", "-", "0", "0", "1">>)
        /\ EndsWith(PodName(pout.val[5]), <<"-", "e", "r", "r", "o", "r", "-", "p", "o", "d">>)
        /\ EndsWith(PodName(pout.val[6]), <<"-", "w", "a", "r", "n", "-", "s", "e", "r", "v", "i", "c", "e">>)
        /\ Contains(PodDisplayName(pout.val[5]), <<"(", "E", "r", "r", "o", "r", " ", "D", "e", "m", "o", ")">>)
        /\ Contains(PodDisplayName(pout.val[6]), <<"(", "W", "a", "r", "n", "i", "n", "g", " ", "D", "e", "m", "o", ")">>)

\* the samples of an application whose own name holds the marker, written
\* with underscores
C9_Witness ==
    /\ pout.done
    /\ pin[1] = <<"x", "_", "e", "r", "r", "o", "r", "_", "p", "o", "d">>
    /\ Len(pout.val) = 6
    /\ PodDisplayName(pout.val[5]) # PodName(pout.val[5])

\* a required field of a request is there and is not blank
FieldGiven(args, f) == f \in DOMAIN args /\ Strip(args[f]) # <<>>

LogsRequestValid(r) ==
    /\ r.ep = "get_pod_logs"
    /\ \A f \in {"application", "cluster", "bundle", "pod"} : FieldGiven(r.args, f)

\* the text below the metadata banner
ContentOf(logs) == IF logs # <<>> /\ logs[1].k = "banner" THEN Tail(logs) ELSE logs

\* C1: a get_pod_logs request with four non-blank identifiers is answered,
\* whatever the cache, the log directories and the live fetch did, with a
\* success whose log text, and whose content below the banner, is not empty.
C1_ContentNeverEmpty ==
    LogsRequestValid(req) =>
        /\ resp.status = 200
        /\ ~resp.error
        /\ resp.logs # <<>>
        /\ ContentOf(resp.logs) # <<>>

\* no file exists, kubectl is not installed, nothing could be written, and
\* the request was answered with the synthesized text
C1_Witness ==
    /\ LogsRequestValid(req)
    /\ resp.stage = "auto-generated"
    /\ effects.live = "notfound"
    /\ files = EmptyMap
    /\ Len(ContentOf(resp.logs)) > 1

SourceIsFile(source) == StartsWith(source, LogsBaseDir)

RequiredFields(ep) ==
    CASE ep = "get_pods" -> {"application", "cluster", "bundle"}
      [] ep = "get_pod_logs" -> {"application", "cluster", "bundle", "pod"}
      [] ep = "track_download" -> {"filename"}
      [] ep = "send_rca_email" -> {"email", "analysis"}
      [] OTHER -> {}

MissingRequired(r) == \E f \in RequiredFields(r.ep) : ~FieldGiven(r.args, f)

\* C4: a request to get_pods, get_pod_logs, track_download or send_rca_email
\* with a required field missing or blank is answered with a 400 error, and
\* its handling reads and writes no cache entry and no file, runs no kubectl
\* and sends no mail: cache and files are as before.
C4_MissingFieldNoSideEffect ==
    [][MissingRequired(req') =>
          /\ resp'.status = 400
          /\ resp'.error
          /\ effects' = NoEffects
          /\ cache' = cache
          /\ files' = files]_vars

\* a request without its pod was refused while the cache held entries
C4_Witness ==
    /\ req.ep = "get_pod_logs"
    /\ "pod" \notin DOMAIN req.args
    /\ resp.status = 400
    /\ effects = NoEffects
    /\ cache # EmptyMap

\* the components of a path, split at '/'
RECURSIVE Components(_)
Components(p) ==
    IF \E i \in 1..Len(p) : p[i] = "/"
    THEN LET i == CHOOSE j \in 1..Len(p) : p[j] = "/" /\ \A k \in 1..(j - 1) : p[k] # "/"
         IN  <<SubSeq(p, 1, i - 1)>> \o Components(SubSeq(p, i + 1, Len(p)))
    ELSE <<p>>

LogsRoot == <<"a", "p", "p", "/", "s", "t", "a", "t", "i", "c", "/", "l", "o", "g", "s">>

\* a file or directory name made of [A-Za-z0-9_-] only, or of such a name and
\* the extension .log
PlainName(c) ==
    LET stem == IF EndsWith(c, <<".", "l", "o", "g">>) THEN SubSeq(c, 1, Len(c) - 4) ELSE c
    IN  stem # <<>> /\ \A i \in 1..Len(stem) : stem[i] \in IdentifierChars

\* the path is the logs root or lies below it, by plain names only: no '..',
\* no '.', no empty component, no separator from an identifier
InsideLogsRoot(p) ==
    \/ p = LogsRoot
    \/ /\ StartsWith(p, LogsRoot \o <<"/">>)
       /\ LET below == Components(SubSeq(p, Len(LogsRoot) + 2, Len(p)))
          IN  \A i \in 1..Len(below) : PlainName(below[i])

CleanKey(key) == \A i \in 1..Len(key) : key[i] \in IdentifierChars

\* C7: whatever the four identifiers of a get_pod_logs request are, every
\* directory and file the handler probes or reads in Stage 1 and every file it
\* writes in Stage 4 lies inside app/static/logs and is named by plain names,
\* and the cache key it reads and writes holds no character outside
\* [A-Za-z0-9_-].
C7_PathsInsideLogsRoot ==
    resp.ep = "get_pod_logs" =>
        /\ \A p \in effects.fread \cup effects.fwrite : InsideLogsRoot(p)
        /\ \A key \in effects.cget \cup effects.cset : CleanKey(key)
        /\ \A p \in DOMAIN files : InsideLogsRoot(p)

\* a request whose cluster is '..' and whose pod starts with '/' went through
\* Stage 1 and Stage 4
C7_Witness ==
    /\ req.ep = "get_pod_logs"
    /\ LogsRequestValid(req)
    /\ Strip(req.args.cluster) = <<".", ".">>
    /\ Head(Strip(req.args.pod)) = "/"
    /\ effects.fread # {}
    /\ effects.fwrite # {}
    /\ effects.cset # {}

PodsArgsValid(args) ==
    \A f \in {"application", "cluster", "bundle"} : FieldGiven(args, f)

HasKey(d, key) == d.kind = "dict" /\ \E i \in 1..Len(d.keys) : d.keys[i] = key

\* the configuration document holds a list at app -> cluster -> bundle
ResolvesToList(cfg, args) ==
    LET app == Strip(args.application)
        cluster == Strip(args.cluster)
        bundle == Strip(args.bundle)
    IN  /\ cfg.st = "ok"
        /\ HasKey(cfg.json, app)
        /\ HasKey(DictGet(cfg.json, app, JNull), cluster)
        /\ HasKey(DictGet(DictGet(cfg.json, app, JNull), cluster, JNull), bundle)
        /\ DictGet(DictGet(DictGet(cfg.json, app, JNull), cluster, JNull), bundle, JNull).kind
              = "list"

ListAt(cfg, args) ==
    DictGet(DictGet(DictGet(cfg.json, Strip(args.application), JNull),
                    Strip(args.cluster), JNull), Strip(args.bundle), JNull).items

PodsCacheMiss(args) ==
    ~CTruthy(CacheGet(cache, PodsCacheKey(Strip(args.application), Strip(args.cluster),
                                          Strip(args.bundle)), now))

\* C8 as stated: in every state, a get_pods request whose path in the
\* configuration resolves to a list, of any length, is answered with that
\* list, and not with samples.
C8_ListReturnedVerbatim ==
    \A args \in PodsArgs :
        (PodsArgsValid(args) /\ ResolvesToList(podsConfig, args)) =>
            LET r == PodsCall(cache, podsConfig, now, args)
            IN  r.resp.pods = ListAt(podsConfig, args) /\ r.resp.stage # "sample"

\* C8, amended: in every state, a get_pods request that finds no cached
\* answer and whose path in the configuration resolves to a list is answered
\* with that list, and without sample generation, when the list is not
\* empty, and with the six samples when it is empty.
C8_NonEmptyListReturnedVerbatim ==
    \A args \in PodsArgs :
        (PodsArgsValid(args) /\ PodsCacheMiss(args) /\ ResolvesToList(podsConfig, args)) =>
            LET r == PodsCall(cache, podsConfig, now, args)
            IN  /\ r.resp.status = 200
                /\ IF ListAt(podsConfig, args) # <<>>
                   THEN r.resp.pods = ListAt(podsConfig, args) /\ r.resp.stage = "config"
                   ELSE r.resp.stage = "sample" /\ Len(r.resp.pods) = 6

\* a request was answered with the two pods the configuration lists
C8_Witness ==
    /\ req.ep = "get_pods"
    /\ PodsArgsValid(req.args)
    /\ ResolvesToList(podsConfig, req.args)
    /\ resp.stage = "config"
    /\ Len(resp.pods) = 2
    /\ resp.pods = ListAt(podsConfig, req.args)

\* C10: a get_pods request with its three identifiers present is answered,
\* whatever the state of the configuration document, with a success that
\* carries a non-empty pod list.
C10_PodsNeverHardFail ==
    (req.ep = "get_pods" /\ PodsArgsValid(req.args)) =>
        /\ resp.status = 200
        /\ ~resp.error
        /\ resp.pods # <<>>

\* a step of get_app_config that found no usable cached document
ConfigMissStep ==
    /\ req'.ep = "get_app_config"
    /\ resp'.ep = "get_app_config"
    /\ appConfig' = appConfig
    /\ now' = now
    /\ effects'.fread # {}

\* C11: a get_app_config call that misses the cache answers a missing file
\* with 404 'Configuration file not found', invalid JSON with 400 'Invalid
\* configuration format' and a top level that is not an object with 500
\* 'Failed to load configuration': three different errors; every error
\* leaves the cache as it was, and only a successful load stores the
\* document under 'app_config', for 300 seconds.
C11_ConfigErrorsDistinct ==
    [][ConfigMissStep =>
          /\ appConfig.st = "absent" =>
                resp'.status = 404 /\ resp'.message = "Configuration file not found"
          /\ appConfig.st = "invalid" =>
                resp'.status = 400 /\ resp'.message = "Invalid configuration format"
          /\ (appConfig.st = "ok" /\ appConfig.json.kind # "dict") =>
                resp'.status = 500 /\ resp'.message = "Failed to load configuration"
          /\ resp'.error => cache' = cache /\ effects'.cset = {}
          /\ (appConfig.st = "ok" /\ appConfig.json.kind = "dict") =>
                /\ resp'.status = 200 /\ ~resp'.error
                /\ resp'.body = appConfig.json
                /\ cache' = [k \in DOMAIN cache \cup {<<"a", "p", "p", "_", "c", "o", "n", "f", "i", "g">>} |->
                               IF k = <<"a", "p", "p", "_", "c", "o", "n", "f", "i", "g">>
                               THEN [val |-> CDoc(appConfig.json), exp |-> now + 300]
                               ELSE cache[k]]
          /\ cache' # cache => ~resp'.error /\ appConfig.json.kind = "dict"]_vars

\* a document whose top level is a list was refused, and nothing was cached
C11_Witness ==
    /\ resp.ep = "get_app_config"
    /\ appConfig.st = "ok"
    /\ appConfig.json.kind = "list"
    /\ resp.status = 500
    /\ effects.fread # {}
    /\ cache = EmptyMap

AnalysisRequest == req.ep \in {"summarize_logs", "analyze_logs"}

\* the text of the request as the handler trims it
TrimmedText == Strip(PostGet(req.args, "log_text", <<>>))

AnalysisField == IF req.ep = "summarize_logs" THEN "summary" ELSE "analysis"

\* C12: summarize_logs and analyze_logs, given a text that is empty once
\* trimmed or that is one of the placeholders 'Waiting for execution...' and
\* 'Fetching pod logs...', answer their fixed 'no logs' message and make no
\* call to the external service.
C12_NoLogsNoCall ==
    (/\ AnalysisRequest
     /\ \/ TrimmedText = <<>>
        \/ TrimmedText = <<"W", "a", "i", "t", "i", "n", "g", " ", "f", "o", "r", " ", "e", "x", "e", "c", "u", "t", "i", "o", "n", ".", ".", ".">>
        \/ TrimmedText = <<"F", "e", "t", "c", "h", "i", "n", "g", " ", "p", "o", "d", " ", "l", "o", "g", "s", ".", ".", ".">>)
    => /\ resp.ep = req.ep
       /\ resp.status = 200
       /\ resp.field = AnalysisField
       /\ resp.message = [s |-> <<>>, kind |-> "no-logs", status |-> 0]
       /\ effects.http = <<>>

\* a placeholder padded with blanks was refused without a call
C12_Witness ==
    /\ req.ep = "analyze_logs"
    /\ PostGet(req.args, "log_text", <<>>) = <<" ", "F", "e", "t", "c", "h", "i", "n", "g", " ", "p", "o", "d", " ", "l", "o", "g", "s", ".", ".", ".", " ">>
    /\ resp.message.kind = "no-logs"
    /\ effects.http = <<>>

\* C13: the text dispatched by summarize_logs and analyze_logs is, for a
\* trimmed text longer than 8000 characters, exactly its first 8000
\* characters followed by the truncation marker, and otherwise the trimmed
\* text unchanged; it is never longer than 8000 characters plus the marker.
C13_TruncatedAt8000 ==
    (AnalysisRequest /\ effects.http # <<>>)
    => /\ Len(effects.http) = 1
       /\ Len(TrimmedText) > 8000 =>
             effects.http[1] = [i \in 1..8000 |-> TrimmedText[i]] \o <<"\n", ".", ".", ".", " ", "(", "t", "r", "u", "n", "c", "a", "t", "e", "d", " ", "f", "o", "r", " ", "a", "n", "a", "l", "y", "s", "i", "s", ")">>
       /\ Len(TrimmedText) <= 8000 => effects.http[1] = TrimmedText
       /\ Len(effects.http[1]) <= 8000 + 29

\* a text of 8001 characters was dispatched as 8000 characters and the marker
C13_Witness ==
    /\ req.ep = "summarize_logs"
    /\ Len(TrimmedText) = 8001
    /\ effects.http # <<>>
    /\ Len(effects.http[1]) = 8029
    /\ effects.http[1][8000] = TrimmedText[8000]
    /\ effects.http[1][8001] = "\n"

\* the generated text of a decoded body: the content at
\* choices[0].message.content when it is there and is a string
TextOf(doc) ==
    IF doc.kind # "dict" \/ ~HasKey(doc, <<"c", "h", "o", "i", "c", "e", "s">>) THEN <<>>
    ELSE LET choices == DictGet(doc, <<"c", "h", "o", "i", "c", "e", "s">>, JNull)
         IN  IF choices.kind # "list" \/ choices.items = <<>> THEN <<>>
             ELSE IF choices.items[1].kind # "dict" THEN <<>>
             ELSE LET message == DictGet(choices.items[1], <<"m", "e", "s", "s", "a", "g", "e">>, JNull)
                  IN  IF message.kind # "dict" THEN <<>>
                      ELSE LET content == DictGet(message, <<"c", "o", "n", "t", "e", "n", "t">>, JNull)
                           IN  IF content.kind = "str" THEN content.s ELSE <<>>

Dispatched == AnalysisRequest /\ effects.http # <<>>

\* C14: whatever the outcome of the external call, the answer is a 200
\* payload with the 'summary' / 'analysis' field set, and the outcome decides
\* it: generated text is answered as that text (trimmed), a success without
\* generated text as the 'empty response' error, another HTTP status as the
\* error with the status and the first 200 characters of the body, a timeout
\* as the timeout error and a network failure as the network error.
C14_OutcomeMapping ==
    Dispatched =>
       /\ resp.status = 200 /\ resp.field = AnalysisField
       /\ req.api.kind = "Timeout" => resp.message.kind = "timeout"
       /\ req.api.kind = "ConnectionError" => resp.message.kind = "network-error"
       /\ (req.api.kind = "http" /\ req.api.status # 200) =>
             /\ resp.message.kind = "api-error"
             /\ resp.message.status = req.api.status
             /\ resp.message.s = [i \in 1..(IF Len(req.api.body) < 200 THEN Len(req.api.body) ELSE 200) |-> req.api.body[i]]
       /\ (req.api.kind = "http" /\ req.api.status = 200 /\ req.api.decode = "none") =>
             IF TextOf(req.api.json) # <<>>
             THEN resp.message.kind = "text" /\ resp.message.s = Strip(TextOf(req.api.json))
             ELSE resp.message.kind = "empty-response"

\* C14, the part that holds: every outcome is answered by a 200 payload with
\* the field set; none propagates as a failure
C14_AlwaysAnswered ==
    Dispatched => resp.ep = req.ep /\ resp.status = 200 /\ resp.field = AnalysisField /\ ~resp.error

\* the recent-downloads list that the cache holds for a client
RecentListOf(ip) ==
    LET key == <<"r", "e", "c", "e", "n", "t", "_", "d", "o", "w", "n", "l", "o", "a", "d", "s", "_">> \o ip
    IN  IF key \in DOMAIN cache /\ cache[key].exp > now THEN cache[key].val.list ELSE <<>>

\* the requests of a client that are still retained: those since the last
\* silence of an hour or more, none when the last one is that old
RECURSIVE Retained(_, _)
Retained(events, t) ==
    IF events = <<>> \/ t - events[Len(events)].t >= 3600 THEN <<>>
    ELSE Append(Retained(SubSeq(events, 1, Len(events) - 1), events[Len(events)].t),
                events[Len(events)])

\* a list entry records this request
Records(entry, event) ==
    /\ entry.client_ip = event.ip
    /\ entry.timestamp = event.t
    /\ entry.filename = sanitize_filename(Strip(event.args.filename))

\* C15: after any sequence of successful track_download calls, the list of
\* recent downloads of each client IP holds at most 10 events; they are
\* exactly the most recent retained events of that IP, in arrival order, and
\* every one of them is an event of that IP.
C15_RecentDownloadsPerIp ==
    \A ip \in AllIps :
        LET list == RecentListOf(ip)
            kept == Retained(hist.events[ip], now)
            skip == IF Len(kept) > 10 THEN Len(kept) - 10 ELSE 0
        IN  /\ Len(list) <= 10
            /\ Len(list) = Len(kept) - skip
            /\ \A i \in 1..Len(list) : Records(list[i], kept[skip + i])
            /\ \A i \in 1..Len(list) : list[i].client_ip = ip

\* the eleventh download of a client pushed out its first, of an earlier
\* time, while another client holds a list of its own
C15_Witness ==
    \E ip \in ClientIps, other \in OtherIps :
        /\ Len(hist.events[ip]) = 11
        /\ Len(RecentListOf(ip)) = 10
        /\ hist.events[ip][1].t < hist.events[ip][2].t
        /\ RecentListOf(ip)[1].timestamp = hist.events[ip][2].t
        /\ Len(RecentListOf(other)) = 1

\* the value of a counter as a reader of the cache sees it
CounterAt(key) == IF key \in DOMAIN cache /\ cache[key].exp > now THEN cache[key].val.n ELSE 0

CounterKeys ==
    { <<"t", "o", "t", "a", "l", "_", "d", "o", "w", "n", "l", "o", "a", "d", "s", "_", "t", "o", "d", "a", "y">>,
      <<"d", "o", "w", "n", "l", "o", "a", "d", "s", "_">> \o DateStr(now) }

InFlight == Cardinality({w \in Workers : calls[w].pc # "idle"})

\* C16: under any interleaving of concurrent track_download calls, within
\* the retention period, each completed call has raised the counters
\* 'total_downloads_today' and 'downloads_{date}' by exactly one and no
\* update is lost: a counter counts at least the completed calls and at most
\* the completed calls and those in flight.
C16_CountersCountEveryCall ==
    \A key \in CounterKeys :
        /\ hist.downloads <= CounterAt(key)
        /\ CounterAt(key) <= hist.downloads + InFlight

\* C16, the other half: a counter value is never observed to decrease
C16_CountersNeverDecrease ==
    [][\A key \in CounterKeys :
          (key \in DOMAIN cache /\ key \in DOMAIN cache') => cache'[key].val.n >= cache[key].val.n]_vars

\* C16 for calls served one after the other: the total counter is the number
\* of tracked calls
C16_SequentialCallsCounted ==
    CounterAt(<<"t", "o", "t", "a", "l", "_", "d", "o", "w", "n", "l", "o", "a", "d", "s", "_", "t", "o", "d", "a", "y">>) = hist.downloads

\* a field of the request that is absent, or blank once trimmed
Absent(args, name) == name \notin DOMAIN args \/ Strip(args[name]) = <<>>

TrackedRequest == req.ep = "track_download" /\ ~Absent(req.args, "filename")

\* the event that the last tracked request left in the list of its client
LastEvent ==
    LET list == RecentListOf(CHOOSE ip \in ClientIps : TRUE) IN list[Len(list)]

\* C17: track_download requires only 'filename': the call succeeds and
\* records the event; app, cluster, bundle and pod that are absent are
\* recorded as 'unknown', and a log_size that is absent or is not a number
\* is recorded as 0.
C17_OptionalFieldsDefault ==
    TrackedRequest =>
       /\ resp.ep = "track_download" /\ resp.status = 200 /\ resp.success /\ ~resp.error
       /\ RecentListOf(CHOOSE ip \in ClientIps : TRUE) # <<>>
       /\ Absent(req.args, "app") => LastEvent.application = <<"u", "n", "k", "n", "o", "w", "n">>
       /\ Absent(req.args, "cluster") => LastEvent.cluster = <<"u", "n", "k", "n", "o", "w", "n">>
       /\ Absent(req.args, "bundle") => LastEvent.bundle = <<"u", "n", "k", "n", "o", "w", "n">>
       /\ Absent(req.args, "pod") => LastEvent.pod = <<"u", "n", "k", "n", "o", "w", "n">>
       /\ Absent(req.args, "log_size") => LastEvent.file_size = 0
       /\ (~Absent(req.args, "log_size") /\ \E i \in 1..Len(req.args.log_size) :
               req.args.log_size[i] \notin {"0", "1", "2", "3", "4", "5", "6", "7", "8", "9", " "})
             => LastEvent.file_size = 0
       /\ (~Absent(req.args, "log_size") /\ req.args.log_size = <<"7">>) => LastEvent.file_size = 7

\* a request with a file name and the size '7k' alone was tracked with size 0
\* and 'unknown' everywhere else
C17_Witness ==
    /\ TrackedRequest
    /\ req.args = [filename |-> <<"f">>, log_size |-> <<"7", "k">>]
    /\ resp.status = 200
    /\ LastEvent.file_size = 0
    /\ LastEvent.pod = <<"u", "n", "k", "n", "o", "w", "n">>

\* the lines of a given level in a text
LinesOf(text, lvl) == { i \in 1..Len(text) : text[i].k = "line" /\ text[i].lvl = lvl }

\* the steady-state section of a text synthesized at time t: the lines
\* stamped between the end of the startup and the closing summary
SteadyState(text, t) ==
    { i \in 1..Len(text) : text[i].k = "line" /\ text[i].ts >= t - 5400 + 20 /\ text[i].ts < t - 120 }

ExitCodeLines(text) ==
    { i \in 1..Len(text) : text[i].k = "line" /\ text[i].msg = "Container exit code: 1" }

\* the three shapes of a synthesized text
ErrorShape(text) == LinesOf(text, "FATAL") # {} \/ ExitCodeLines(text) # {}

WarnShape(text) == LinesOf(text, "WARN") # {} /\ LinesOf(text, "FATAL") = {}

QuietShape(text, t) == SteadyState(text, t) \cap (LinesOf(text, "ERROR") \cup LinesOf(text, "FATAL")) = {}

Synthesized == pout.done /\ pin \in SynthNames \X SynthNames \X SynthNames \X SynthPods

\* C18 as stated, the pod name compared letter for letter: a name with
\* 'error' gives a FATAL or exit-code line, a name with 'warn' and without
\* 'error' a WARN line and no FATAL line, any other name no ERROR and no
\* FATAL line in the steady-state section.
C18_ShapeByName ==
    Synthesized =>
       /\ Contains(pin[4], <<"e", "r", "r", "o", "r">>) => ErrorShape(pout.val)
       /\ (Contains(pin[4], <<"w", "a", "r", "n">>) /\ ~Contains(pin[4], <<"e", "r", "r", "o", "r">>))
             => WarnShape(pout.val)
       /\ (~Contains(pin[4], <<"w", "a", "r", "n">>) /\ ~Contains(pin[4], <<"e", "r", "r", "o", "r">>))
             => QuietShape(pout.val, now)

\* C18: for every application, cluster and bundle, with the pod name
\* compared in lower case: a name with 'error' gives a text with a FATAL
\* line and a non-zero exit-code line; a name with 'warn' and without 'error'
\* a text with a WARN line and no FATAL line; any other name a text with no
\* ERROR and no FATAL line in its steady-state section.
C18_ShapeByLowerName ==
    Synthesized =>
       /\ Contains(Lower(pin[4]), <<"e", "r", "r", "o", "r">>)
             => LinesOf(pout.val, "FATAL") # {} /\ ExitCodeLines(pout.val) # {}
       /\ (Contains(Lower(pin[4]), <<"w", "a", "r", "n">>) /\ ~Contains(Lower(pin[4]), <<"e", "r", "r", "o", "r">>))
             => WarnShape(pout.val)
       /\ (~Contains(Lower(pin[4]), <<"w", "a", "r", "n">>) /\ ~Contains(Lower(pin[4]), <<"e", "r", "r", "o", "r">>))
             => /\ QuietShape(pout.val, now)
                /\ SteadyState(pout.val, now) # {}

\* the pod 'ERROR-1' of application 'ERROR' got the failing text
C18_Witness ==
    /\ Synthesized
    /\ pin[1] = <<"E", "R", "R", "O", "R">>
    /\ pin[4] = <<"E", "R", "R", "O", "R", "-", "1">>
    /\ LinesOf(pout.val, "FATAL") \cap SteadyState(pout.val, now) # {}

\* a get_pod_logs call that missed the cache and went through the stages
LogsMissStep ==
    /\ req'.ep = "get_pod_logs"
    /\ resp'.ep = "get_pod_logs"
    /\ now' = now
    /\ hist'.manual = hist.manual
    /\ effects'.cset # {}

\* a candidate that exists, is not empty, decodes and is not blank
UsableFile(fs, path) ==
    /\ path \in DOMAIN fs
    /\ fs[path].enc = "utf8"
    /\ fs[path].text # <<>>
    /\ \E i \in 1..Len(fs[path].text) : fs[path].text[i].k # "ws"

UsableAt(fs, cands) == { k \in 1..Len(cands) : UsableFile(fs, cands[k]) }

Least(S) == CHOOSE k \in S : \A j \in S : k <= j

FirstUsable(fs, cands) == cands[Least(UsableAt(fs, cands))]

\* C19: the file whose content Stage 1 of get_pod_logs returns is exactly
\* the first candidate, directories outside and patterns inside, that exists,
\* has a size, decodes as UTF-8 and is not blank once trimmed; a candidate
\* that fails one of these is never the returned content and never changes
\* which later candidate wins.
C19_FirstUsableFileWins ==
    [][LogsMissStep =>
          /\ UsableAt(files, CandidatesOf(req'.args, now)) # {} =>
                /\ resp'.stage = "file"
                /\ BannerSource(resp'.logs) = FirstUsable(files, CandidatesOf(req'.args, now))
                /\ ContentOf(resp'.logs) = files[FirstUsable(files, CandidatesOf(req'.args, now))].text
          /\ resp'.stage = "file" => UsableAt(files, CandidatesOf(req'.args, now)) # {}]_vars

\* C19, the part that holds: a source named in the banner is the first
\* usable candidate, and the content is that file's
C19_NamedSourceIsFirstUsable ==
    [][(LogsMissStep /\ SourceIsFile(BannerSource(resp'.logs)) /\ resp'.stage = "file") =>
          /\ UsableAt(files, CandidatesOf(req'.args, now)) # {}
          /\ BannerSource(resp'.logs) \in { CandidatesOf(req'.args, now)[k] : k \in UsableAt(files, CandidatesOf(req'.args, now)) }
          /\ ContentOf(resp'.logs) = files[BannerSource(resp'.logs)].text]_vars

\* the live fetch gave a text that is not blank
LiveUsable(r) ==
    /\ r.stage = "kubernetes-api"
    /\ \E i \in 1..Len(ContentOf(r.logs)) : ContentOf(r.logs)[i].k # "ws"

\* C20: the stages of get_pod_logs are strictly ordered: the live fetch is
\* attempted if and only if Stage 1 found no usable file, and the synthesis
\* runs if and only if neither Stage 1 nor the live fetch produced anything
\* usable.
C20_StagesStrictlyOrdered ==
    [][LogsMissStep =>
          /\ effects'.kubectl # <<>> <=> UsableAt(files, CandidatesOf(req'.args, now)) = {}
          /\ resp'.stage = "auto-generated" <=>
                (UsableAt(files, CandidatesOf(req'.args, now)) = {} /\ ~LiveUsable(resp'))]_vars

\* C20, the part that holds: no stage runs after an earlier one produced
\* usable content
C20_NoStageAfterUsable ==
    [][LogsMissStep =>
          /\ UsableAt(files, CandidatesOf(req'.args, now)) # {} =>
                effects'.kubectl = <<>> /\ resp'.stage = "file" /\ effects'.fwrite = {}
          /\ resp'.stage = "auto-generated" => effects'.kubectl # <<>>
          /\ LiveUsable(resp') => effects'.fwrite = {}]_vars

\* a get_pod_logs call with its four fields given
LogsCallStep ==
    /\ LogsRequestValid(req')
    /\ resp'.ep = "get_pod_logs"
    /\ now' = now
    /\ hist'.manual = hist.manual

\* a candidate that Stage 1 passes over: it has no size or does not decode
SkippedFile(fs, path) ==
    /\ path \in DOMAIN fs
    /\ (fs[path].text = <<>> \/ fs[path].enc # "utf8")

\* the answer r of a run that looked through the candidates cands of the
\* files fs is the first usable candidate, and the run looked at eff.fread
FoundFirstUsable(fs, cands, first, r, eff) ==
    /\ r.stage = "file"
    /\ BannerSource(r.logs) = cands[first]
    /\ ContentOf(r.logs) = fs[cands[first]].text
    /\ \A j \in 1..first : cands[j] \in DOMAIN fs => cands[j] \in eff.fread

SkippedThenFound(fs, cands, r, eff) ==
    \A usable \in {UsableAt(fs, cands)} :
        (usable # {} /\ \A j \in 1..(Least(usable) - 1) :
                            cands[j] \in DOMAIN fs => SkippedFile(fs, cands[j]))
            => FoundFirstUsable(fs, cands, Least(usable), r, eff)

\* C21: in Stage 1 a candidate file that is zero-length or fails UTF-8
\* decoding is skipped without error: the request does not fail, the search
\* goes on through the remaining patterns and directories, and the usable
\* file that comes later in the order is found and returned.
C21_SkippedFilesNotFatal ==
    [][LogsCallStep =>
          /\ resp'.status = 200
          /\ ~resp'.error
          /\ effects'.cset # {} =>
                \A cands \in {CandidatesOf(req'.args, now)} :
                    SkippedThenFound(files, cands, resp', effects')]_vars

\* an undecodable file under the first pattern of the log root, and the
\* answer taken from the file under the second pattern
C21_Witness ==
    /\ LogsRequestValid(req)
    /\ resp.stage = "file"
    /\ effects.cset # {}
    /\ RootPodLog \in DOMAIN files
    /\ files[RootPodLog] = BadFile
    /\ BannerSource(resp.logs) = RootAppPodLog
    /\ ContentOf(resp.logs) = RealText

\* how many of the request's identifiers each search directory names, in the
\* order of the list
DirSpecificity == <<0, 1, 1, 1, 2, 2, 2, 1, 0>>

\* the search directory of the k-th candidate
DirOf(k) == ((k - 1) \div 10) + 1

\* no usable candidate in a directory that names more identifiers is passed
\* over for the returned one
MostSpecificReturned(cands, usable, r) ==
    \A k \in usable :
        BannerSource(r.logs) = cands[k] =>
            \A j \in usable : DirSpecificity[DirOf(j)] <= DirSpecificity[DirOf(k)]

\* C22 as stated: when usable log files for the pod exist in a more specific
\* directory and in a less specific one, the file in the more specific
\* directory is the one returned.
C22_MoreSpecificWins ==
    [][(LogsCallStep /\ effects'.cset # {}) =>
          \A cands \in {CandidatesOf(req'.args, now)} :
              \A usable \in {UsableAt(files, cands)} :
                  usable # {} =>
                      /\ resp'.stage = "file"
                      /\ MostSpecificReturned(cands, usable, resp')]_vars

\* the usable candidates that lie in the log root itself
InLogRoot(path) ==
    /\ StartsWith(path, LogsBaseDir \o <<"/">>)
    /\ \A i \in (Len(LogsBaseDir) + 2)..Len(path) : path[i] # "/"

InRoot(cands, usable) == { k \in usable : InLogRoot(cands[k]) }

\* C22, amended: the directories are searched in the order of the list,
\* which starts at the log root: when usable log files for the pod exist in
\* the log root and in a more specific directory, the file in the log root
\* (the first usable pattern there) is the one returned.
C22_LogRootWins ==
    [][(LogsCallStep /\ effects'.cset # {}) =>
          \A cands \in {CandidatesOf(req'.args, now)} :
              \A usable \in {UsableAt(files, cands)} :
                  \A root \in {InRoot(cands, usable)} :
                      root # {} =>
                          /\ resp'.stage = "file"
                          /\ BannerSource(resp'.logs) = cands[Least(root)]
                          /\ ContentOf(resp'.logs) = files[cands[Least(root)]].text]_vars

\* real files in the log root and in the directory of the application's
\* cluster, and the answer taken from the log root
C22_Witness ==
    /\ LogsRequestValid(req)
    /\ effects.cset # {}
    /\ UsableFile(files, RootPodLog)
    /\ UsableFile(files, AppClusterPodLog)
    /\ resp.stage = "file"
    /\ BannerSource(resp.logs) = RootPodLog

\* logs/pods/{app}-{bundle}-{pod}.log for the sanitized identifiers
FlatTarget(app, bundle, pod) ==
    LogsBaseDir \o <<"/", "p", "o", "d", "s", "/">> \o app \o <<"-">> \o bundle \o <<"-">>
    \o pod \o DotLog

\* logs/{app}/{cluster}/{bundle}/{pod}.log for the sanitized identifiers
HierarchicalTarget(app, cluster, bundle, pod) ==
    LogsBaseDir \o <<"/">> \o app \o <<"/">> \o cluster \o <<"/">> \o bundle \o <<"/">>
    \o pod \o DotLog

\* the two places of Stage 4 for a request
SaveTargets(args) ==
    { FlatTarget(sanitize_filename(Strip(args.application)),
                 sanitize_filename(Strip(args.bundle)), sanitize_filename(Strip(args.pod))),
      HierarchicalTarget(sanitize_filename(Strip(args.application)),
                         sanitize_filename(Strip(args.cluster)),
                         sanitize_filename(Strip(args.bundle)),
                         sanitize_filename(Strip(args.pod))) }

\* the files after the run are the files before it with the written ones
\* holding the text
OnlyWritten(before, after, written, text) ==
    /\ DOMAIN after = DOMAIN before \cup written
    /\ \A p \in written : after[p] = TextFile(text)
    /\ \A p \in DOMAIN before \ written : after[p] = before[p]

\* C23: Stage 4 writes happen only when the content came from synthesis: a
\* get_pod_logs call answered from the cache, from a file or from the live
\* fetch writes no file; a call answered by synthesis writes the synthesized
\* content, and nothing else, to the flat path and to the hierarchical path
\* (both when no write fails).
C23_WritesOnlyOnSynthesis ==
    [][LogsCallStep =>
          /\ resp'.stage \in {"cache", "file", "kubernetes-api", "auto-generated"}
          /\ resp'.stage # "auto-generated" => (files' = files /\ effects'.fwrite = {})
          /\ resp'.stage = "auto-generated" =>
                \A targets \in {SaveTargets(req'.args)} :
                    /\ effects'.fwrite \subseteq targets
                    /\ effects'.save = "ok" => effects'.fwrite = targets
                    /\ OnlyWritten(files, files', effects'.fwrite, ContentOf(resp'.logs))]_vars

\* a synthesized answer whose two files were written next to a curated file
C23_Witness ==
    /\ LogsRequestValid(req)
    /\ resp.stage = "auto-generated"
    /\ effects.save = "ok"
    /\ Cardinality(effects.fwrite) = 2
    /\ \A p \in SaveTargets(req.args) : p \in DOMAIN files /\ files[p] = TextFile(ContentOf(resp.logs))
    /\ RootPodLog \in DOMAIN files

\* the text that the synthesis gives for a request at time t
SynthesizedFor(args, t) ==
    auto_generate_pod_logs(Strip(args.application), Strip(args.cluster), Strip(args.bundle),
                           Strip(args.pod), t)

\* the answer was stored under every key the run set, for 30 seconds from t
StoredAsReturned(c, keys, r, t) ==
    /\ keys # {}
    /\ \A key \in keys :
          /\ key \in DOMAIN c
          /\ c[key].val = CLogs(r.logs)
          /\ c[key].exp = t + 30

\* C24: when writing the synthesized log to disk fails, at the flat or at
\* the hierarchical location, get_pod_logs still answers with a success that
\* carries the synthesized content and still caches it; the failure is never
\* turned into an error response.
C24_WriteFailureNotFatal ==
    [][(LogsCallStep /\ effects'.save \in {"flat_fails", "hier_fails"}) =>
          /\ resp'.status = 200
          /\ ~resp'.error
          /\ resp'.stage = "auto-generated"
          /\ BannerSource(resp'.logs) = AutoGenerated
          /\ ContentOf(resp'.logs) = SynthesizedFor(req'.args, now)
          /\ StoredAsReturned(cache', effects'.cset, resp', now)]_vars

\* the flat file could not be written, and the synthesized text was returned
\* and cached
C24_Witness ==
    /\ LogsRequestValid(req)
    /\ effects.save = "flat_fails"
    /\ effects.fwrite = {}
    /\ resp.status = 200
    /\ resp.stage = "auto-generated"
    /\ \A p \in SaveTargets(req.args) : p \notin DOMAIN files
    /\ \E key \in effects.cset : key \in DOMAIN cache /\ cache[key].val = CLogs(resp.logs)

\* pod_logs_{app}_{cluster}_{bundle}_{pod} for the sanitized identifiers
LogsKeyOf(args) ==
    <<"p", "o", "d", "_", "l", "o", "g", "s", "_">>
    \o sanitize_filename(Strip(args.application)) \o <<"_">>
    \o sanitize_filename(Strip(args.cluster)) \o <<"_">>
    \o sanitize_filename(Strip(args.bundle)) \o <<"_">>
    \o sanitize_filename(Strip(args.pod))

\* the cache holds a live entry under the key at time t
Cached(c, key, t) == key \in DOMAIN c /\ c[key].exp > t

\* a hit: the stored text is the answer, and the run did nothing but look
\* into the cache
PureHit(c, key, r, eff) ==
    /\ r.status = 200
    /\ r.stage = "cache"
    /\ r.logs = c[key].val.logs
    /\ r.logs[1].k = "banner"
    /\ r.logs[1].ts + 30 = c[key].exp
    /\ eff = [NoEffects EXCEPT !.cget = {key}]

\* C25: a cache hit in get_pod_logs has no side effect and returns the
\* cached value verbatim: no file is read or written, no live fetch is made,
\* the cache entry and its expiry are not rewritten, and the banner is the
\* one computed when the entry was stored.
C25_CacheHitNoSideEffect ==
    [][LogsCallStep =>
          \A key \in {LogsKeyOf(req'.args)} :
              /\ resp'.stage = "cache" <=> Cached(cache, key, now)
              /\ Cached(cache, key, now) =>
                    /\ PureHit(cache, key, resp', effects')
                    /\ cache' = cache
                    /\ files' = files]_vars

\* a hit some time after the entry was stored: the banner still carries the
\* time of the store
C25_Witness ==
    /\ LogsRequestValid(req)
    /\ resp.stage = "cache"
    /\ resp.logs[1].ts < now
    /\ effects.cget # {}
    /\ effects.cset = {}
    /\ effects.fread = {}
    /\ \A key \in effects.cget : key \in DOMAIN cache /\ cache[key].exp = resp.logs[1].ts + 30

\* the places of a text where a banner stands
BannersIn(text) == { i \in 1..Len(text) : text[i].k = "banner" }

\* the banner of an answer given at time t to a request
BannerFor(args, t, r) ==
    /\ r.logs[1].ts = t
    /\ r.logs[1].args = <<BannerSource(r.logs), Strip(args.pod), Strip(args.application),
                          Strip(args.cluster), Strip(args.bundle)>>
    /\ BannerSource(r.logs) = (IF r.stage = "auto-generated" THEN AutoGenerated
                               ELSE IF r.stage = "kubernetes-api" THEN KubernetesApi
                               ELSE BannerSource(r.logs))

\* C26: on every cache-miss resolution, whatever the source, the value
\* returned is banner + body, the identical value is stored under the
\* tuple's cache key for 30 seconds, and the banner occurs exactly once: the
\* file persisted in Stage 4 holds the body without banner, so after any
\* sequence of calls (hits, expiries, re-reads of the persisted file) no
\* answer, cache entry or file holds a second banner.
C26_BannerExactlyOnce ==
    [][LogsCallStep =>
          /\ BannersIn(resp'.logs) = {1}
          /\ effects'.cset # {} =>
                /\ effects'.cset = {LogsKeyOf(req'.args)}
                /\ StoredAsReturned(cache', effects'.cset, resp', now)
                /\ BannerFor(req'.args, now, resp')
                /\ resp'.stage = "file" =>
                      \E p \in DOMAIN files : ContentOf(resp'.logs) = files[p].text
                /\ resp'.stage = "auto-generated" =>
                      /\ ContentOf(resp'.logs) = SynthesizedFor(req'.args, now)
                      /\ \A p \in effects'.fwrite : files'[p].text = ContentOf(resp'.logs)
          /\ \A p \in DOMAIN files' : BannersIn(files'[p].text) = {}
          /\ \A key \in DOMAIN cache' : BannersIn(cache'[key].val.logs) = {1}]_vars

\* the persisted file read again after the cache entry had expired: one
\* banner, and under it the body as it was saved
C26_Witness ==
    /\ LogsRequestValid(req)
    /\ resp.stage = "file"
    /\ effects.cset # {}
    /\ BannerSource(resp.logs) \in SaveTargets(req.args)
    /\ BannersIn(resp.logs) = {1}
    /\ resp.logs[1].ts >= 30
    /\ ContentOf(resp.logs) = SynthesizedFor(req.args, 0)

\* the ways the live fetch fails
LiveFailures == {"notfound", "timeout", "nonzero", "error"}

\* C27: every failure of the live-fetch stage (tool absent, timeout,
\* non-zero exit, any other exception) yields no result, so that the
\* resolution proceeds to synthesis; no live-fetch failure is surfaced to the
\* caller as an error response.
C27_LiveFailureSwallowed ==
    [][(LogsCallStep /\ effects'.live \in LiveFailures) =>
          /\ resp'.status = 200
          /\ ~resp'.error
          /\ resp'.stage = "auto-generated"
          /\ BannerSource(resp'.logs) = AutoGenerated
          /\ ContentOf(resp'.logs) = SynthesizedFor(req'.args, now)
          /\ effects'.save # ""]_vars

\* kubectl exited with a failure code and the answer was synthesized
C27_Witness ==
    /\ LogsRequestValid(req)
    /\ effects.live = "nonzero"
    /\ effects.kubectl # <<>>
    /\ resp.status = 200
    /\ resp.stage = "auto-generated"

\* pods_{app}_{cluster}_{bundle} for the sanitized identifiers
PodsKeyOf(args) ==
    <<"p", "o", "d", "s", "_">>
    \o sanitize_filename(Strip(args.application)) \o <<"_">>
    \o sanitize_filename(Strip(args.cluster)) \o <<"_">>
    \o sanitize_filename(Strip(args.bundle))

\* a get_pods call with its three fields given
PodsCallStep ==
    /\ req'.ep = "get_pods"
    /\ resp'.ep = "get_pods"
    /\ PodsArgsValid(req'.args)
    /\ now' = now
    /\ podsConfig' = podsConfig

\* C28: get_pods stores the resolved pod list under the key built from the
\* sanitized (app, cluster, bundle) with a 2-minute TTL before returning, and
\* any further call for the same triple within the TTL returns that same
\* list without consulting pods-config or regenerating samples, even if the
\* pods-config document changed in between.
C28_PodsCachedTwoMinutes ==
    [][PodsCallStep =>
          \A key \in {PodsKeyOf(req'.args)} :
              /\ (~Cached(cache, key, now) /\ resp'.status = 200) =>
                    /\ resp'.stage \in {"config", "sample"}
                    /\ effects'.cset = {key}
                    /\ key \in DOMAIN cache'
                    /\ cache'[key].val = CPods(resp'.pods)
                    /\ cache'[key].exp = now + 120
              /\ Cached(cache, key, now) =>
                    /\ resp'.status = 200
                    /\ resp'.stage = "cache"
                    /\ resp'.pods = cache[key].val.pods
                    /\ effects' = [NoEffects EXCEPT !.cget = {key}]
                    /\ cache' = cache]_vars

\* a minute after the samples were stored the document lists pods for the
\* triple, and the call is still answered with the stored samples
C28_Witness ==
    /\ req.ep = "get_pods"
    /\ PodsArgsValid(req.args)
    /\ resp.stage = "cache"
    /\ Len(resp.pods) = 6
    /\ ResolvesToList(podsConfig, req.args)
    /\ ListAt(podsConfig, req.args) # <<>>
    /\ PodsKeyOf(req.args) \in DOMAIN cache
    /\ cache[PodsKeyOf(req.args)].exp = now + 60

\* the operator has added a real log file for the tuple
RealFileAdded(h, fs) == h.manual > 0 /\ \E p \in AddedPaths : UsableFile(fs, p)

\* the answer is a usable log file of the tuple
RealFileReturned(fs, r) ==
    /\ r.stage = "file"
    /\ UsableFile(fs, BannerSource(r.logs))
    /\ ContentOf(r.logs) = fs[BannerSource(r.logs)].text

\* the tuple was answered before, and the entry stored for that answer has
\* expired
EntryExpired ==
    /\ LogsRequestValid(req)
    /\ resp.status = 200
    /\ resp.logs[1].ts + 30 <= now

\* C29: staleness of cached logs is bounded by the TTL alone: an entry
\* stored by get_pod_logs at time t is never served after t + 30 s, cache
\* hits do not extend its lifetime, and a real log file added for the tuple
\* is returned by the first call made after the entry has expired.
C29_StalenessBoundedByTtl ==
    [][LogsCallStep =>
          /\ resp'.stage = "cache" =>
                /\ now < resp'.logs[1].ts + 30
                /\ cache' = cache
          /\ (EntryExpired /\ ~Cached(cache, LogsKeyOf(req'.args), now)
                /\ RealFileAdded(hist, files)) =>
                RealFileReturned(files, resp')]_vars

\* C29, the part that holds: a stored entry is served only within 30 s of
\* its store, hits leave the entry and its expiry as they are, and the first
\* call after the expiry resolves through the stages again
C29_EntryServedWithinTtl ==
    [][LogsCallStep =>
          /\ resp'.stage = "cache" =>
                /\ now < resp'.logs[1].ts + 30
                /\ cache' = cache
          /\ ~Cached(cache, LogsKeyOf(req'.args), now) =>
                /\ resp'.stage # "cache"
                /\ resp'.logs[1].ts = now]_vars

\* the texts a request of the raced tuple can be given whole: a run of the
\* synthesis at one of the clock's times, or the entire output of kubectl
WholeLogs ==
    { SynthesizedFor(RaceArgs, k * TickStep) : k \in 0..MaxRaceTicks }
    \cup { ko.stdout : ko \in {o \in KubectlOutcomes : o.kind = "ok" /\ o.stdout # <<>>} }

NotBlank(text) == \E i \in 1..Len(text) : text[i].k # "ws"

\* worker w has answered its get_pod_logs request
Finished(w) == "logs" \in DOMAIN calls[w] /\ calls[w].pc = "done"

\* the workers whose request went through the synthesis
Synthesizers == { w \in DOMAIN calls : Finished(w) /\ calls[w].stage = "auto-generated" }

\* no request is in flight and one was served
AllFinished ==
    /\ \A w \in DOMAIN calls : calls[w].pc = "idle" \/ Finished(w)
    /\ \E w \in DOMAIN calls : Finished(w)

\* each persisted file holds the text one request synthesized, and the
\* cache entry holds the answer of one request
OneWritersValue ==
    /\ \A p \in {RaceFlat, RaceHier} \cap DOMAIN files :
          \E w \in Synthesizers : files[p].text = calls[w].log_content
    /\ RaceKey \in DOMAIN cache =>
          \E w \in DOMAIN calls : Finished(w) /\ cache[RaceKey].val.logs = calls[w].logs

\* C30: for any interleaving of concurrent get_pod_logs requests for one
\* tuple racing through Stages 1-4, every request returns a complete log (a
\* whole file or a whole synthesized log, never a partially written or blank
\* body), and when all requests have finished the persisted file and the
\* cache entry each hold one complete value written by one of the requests.
C30_RaceReturnsCompleteLogs ==
    /\ \A w \in DOMAIN calls :
          Finished(w) =>
              /\ BannersIn(calls[w].logs) = {1}
              /\ ContentOf(calls[w].logs) \in WholeLogs
              /\ NotBlank(ContentOf(calls[w].logs))
    /\ AllFinished => OneWritersValue

\* C30, the part that holds: under every interleaving each answer is one
\* whole text (never a torn or half-written one), and when all requests
\* have finished each persisted file and the cache entry hold the whole
\* value of one request
C30_NoTornValue ==
    /\ \A w \in DOMAIN calls :
          Finished(w) =>
              /\ BannersIn(calls[w].logs) = {1}
              /\ ContentOf(calls[w].logs) \in WholeLogs
    /\ AllFinished => OneWritersValue

\* a request that found the file of another one emptied between its size
\* check and its read, and synthesized its own answer
C30_TruncatedReadSeen ==
    \E w \in DOMAIN calls :
        /\ "from" \in DOMAIN calls[w]
        /\ calls[w].from > 1
        /\ calls[w].log_content = <<>>
        /\ calls[w].pc = "live"

\* the figures of the closing summary: what the memory line and the CPU
\* line of a text report
FooterFigures(text, msg) == { text[i].args : i \in { j \in 1..Len(text) : text[j].k = "line" /\ text[j].msg = msg } }

ElevatedFooter(text) ==
    /\ FooterFigures(text, "Current memory usage: {}%") = { << <<"9", "5">> >> }
    /\ FooterFigures(text, "Current CPU usage: {}%") = { << <<"9", "8">> >> }

NominalFooter(text) ==
    /\ FooterFigures(text, "Current memory usage: {}%") = { << <<"4", "5">> >> }
    /\ FooterFigures(text, "Current CPU usage: {}%") = { << <<"2", "5">> >> }

\* the escalating-failure narrative in the steady-state section
FailureNarrative(text, t) == LinesOf(text, "FATAL") \cap SteadyState(text, t) # {}

\* C31: the closing summary of a synthesized text agrees with its activity
\* section: it reports memory 95% and CPU 98% for exactly the pod names that
\* get the escalating-failure narrative, whatever their letter case, and
\* memory 45% and CPU 25% for every other name.
C31_FooterAgreesWithActivity ==
    Synthesized =>
       /\ FailureNarrative(pout.val, now) <=> Contains(Lower(pin[4]), ErrorWord)
       /\ FailureNarrative(pout.val, now) => ElevatedFooter(pout.val)
       /\ ~FailureNarrative(pout.val, now) => NominalFooter(pout.val)

\* C31, what the code does: the figures follow the name letter for letter,
\* the narrative follows the name in lower case
C31_FooterByExactName ==
    Synthesized =>
       /\ FailureNarrative(pout.val, now) <=> Contains(Lower(pin[4]), ErrorWord)
       /\ Contains(pin[4], ErrorWord) => ElevatedFooter(pout.val)
       /\ ~Contains(pin[4], ErrorWord) => NominalFooter(pout.val)

\* the pod 'ERROR-1' got the failure narrative under a nominal summary
C31_NarrativeUnderNominalFooter ==
    /\ Synthesized
    /\ pin[4] = <<"E", "R", "R", "O", "R", "-", "1">>
    /\ FailureNarrative(pout.val, now)
    /\ NominalFooter(pout.val)

\* the identifiers a banner shows
BannerIdentifiers(logs) == SubSeq(logs[1].args, 2, 5)

\* the identifiers of a request, in the order of the banner
RequestIdentifiers(args) == <<Strip(args.pod), Strip(args.application), Strip(args.cluster), Strip(args.bundle)>>

\* the request whose identifiers a banner shows
ArgsOfBanner(logs) ==
    [application |-> logs[1].args[3], cluster |-> logs[1].args[4], bundle |-> logs[1].args[5], pod |-> logs[1].args[2]]

\* C32: cache entries are not shared across tuples: a get_pod_logs request
\* is never answered from the entry another tuple stored, so the identifiers
\* in the banner of a returned log are those of the request that receives it.
C32_BannerNamesTheRequest ==
    [][LogsCallStep => BannerIdentifiers(resp'.logs) = RequestIdentifiers(req'.args)]_vars

\* C32, what the code keeps: an answer from the cache was stored by a
\* request whose sanitized identifiers join to the same key, and an answer
\* computed now names its own request
C32_BannerNamesTheKey ==
    [][LogsCallStep =>
          /\ LogsKeyOf(ArgsOfBanner(resp'.logs)) = LogsKeyOf(req'.args)
          /\ resp'.stage # "cache" => BannerIdentifiers(resp'.logs) = RequestIdentifiers(req'.args)]_vars

\* the request for pod 'x' of bundle 't_' was answered with the log stored
\* for pod '/x' of bundle 't'
C32_NeighbourAnswered ==
    /\ LogsRequestValid(req)
    /\ resp.stage = "cache"
    /\ req.args.bundle = <<"t", "_">>
    /\ BannerIdentifiers(resp.logs) = << <<"/", "x">>, <<"s">>, <<".", ".">>, <<"t">> >>

\* the flat file of Stage 4 for a request
FlatOf(args) ==
    FlatTarget(sanitize_filename(Strip(args.application)), sanitize_filename(Strip(args.bundle)),
               sanitize_filename(Strip(args.pod)))

\* of the two files of Stage 4 only the hierarchical one is there: the flat
\* file was removed or never written
OnlyHierarchicalLeft(fs, args) ==
    /\ FlatOf(args) \notin DOMAIN fs
    /\ \A p \in SaveTargets(args) \ {FlatOf(args)} : UsableFile(fs, p)

\* C33: each of the two files written by Stage 4 is by itself enough for a
\* later Stage 1 hit: when only the hierarchical file
\* logs/{app}/{cluster}/{bundle}/{pod}.log is left, the next uncached
\* get_pod_logs call for the tuple is resolved from the filesystem and does
\* not synthesize again.
C33_HierarchicalFileSuffices ==
    [][(LogsCallStep /\ OnlyHierarchicalLeft(files, req'.args) /\ ~Cached(cache, LogsKeyOf(req'.args), now)) =>
          /\ resp'.stage = "file"
          /\ effects'.fwrite = {}]_vars

\* the hierarchical file was there, no candidate of Stage 1 was, and the
\* call synthesized again and wrote both files
C33_SynthesizedAgain ==
    /\ LogsRequestValid(req)
    /\ resp.stage = "auto-generated"
    /\ hist.manual = 1
    /\ \E tu \in ValidTuples : hist.synthRuns[tu] = 2
    /\ effects.fwrite = SaveTargets(req.args)

====
